---------------------------- MODULE Spec2Model ----------------------------
(***************************************************************************)
(* Model of the custom DNS server: the sharded TTL+LRU cache               *)
(* (FastDNSCache, dns_server.h and the server source), and the query       *)
(* dispatcher (DNSServer::handle_query).                                   *)
(*                                                                         *)
(* Domain names and IPv4 strings are sequences of octets.  The steady      *)
(* clock is the variable now; an operation that reads the clock twice may  *)
(* see it advance between the two reads.                                   *)
(***************************************************************************)
EXTENDS Integers, Sequences, FiniteSets, TLC

(***************************************************************************)
(* Bounds of the model.  NUM_SHARDS and MAX_ENTRIES_PER_SHARD stand for    *)
(* the program's 16 and 8192 / 16 = 512 (dns_server.h:87-90), scaled down  *)
(* so that a shard can be filled and overflowed.                           *)
(***************************************************************************)
NUM_SHARDS == 2

MAX_ENTRIES_PER_SHARD == 3

\* the steady clock stops advancing here
MaxTime == 2

\* get calls made on the cache (caps the hits and misses counters)
MaxGets == 1

\* LRU evictions in the cache (caps the evictions counters)
MaxEvictions == 1

\* how far the clock may advance between two reads inside one operation
Skews == {0, 1}

\* CACHE_SIZE (dns_server.h:87); the program derives the per-shard bound
\* from it, MAX_ENTRIES_PER_SHARD = CACHE_SIZE / NUM_SHARDS
CACHE_SIZE == NUM_SHARDS * MAX_ENTRIES_PER_SHARD

ShardIds == 0 .. (NUM_SHARDS - 1)

\* cache keys of the cache operations: "a", "c", "e", "g" hash to one shard, "b" to the other
Domains == {<<97>>, <<99>>, <<101>>, <<103>>, <<98>>}

IPs == {<<49>>, <<50>>}

TTLs == {0, 1, 2}

\* the set calls made: one key takes every ip and ttl, the others one each
SetInputs ==
    {[domain |-> <<97>>, ip |-> ip, ttl |-> ttl] : ip \in IPs, ttl \in TTLs}
    \cup {[domain |-> <<99>>, ip |-> <<49>>, ttl |-> 1],
          [domain |-> <<101>>, ip |-> <<49>>, ttl |-> 2],
          [domain |-> <<103>>, ip |-> <<50>>, ttl |-> 2],
          [domain |-> <<98>>, ip |-> <<49>>, ttl |-> 1]}

None == <<>>

VARIABLES
    shards,     \* array<Shard, NUM_SHARDS> of FastDNSCache
    now,        \* chrono::steady_clock
    get_calls,  \* history: completed get calls per shard
    installed   \* history: per key, the ip and expiry (t + ttl) of its most
                \* recent set, while that time is ahead and the key was not
                \* LRU-evicted since

cacheVars == <<shards, now, get_calls, installed>>

VARIABLES
    test        \* test_ttl_lru_hybrid, LRU ordering: its position, the number
                \* of fillers set and the results of its three final gets

testVars == <<test>>

VARIABLES
    running,            \* DNSServer::running
    responses,          \* PrecompiledResponses::responses
    total_queries,      \* DNSServer counters
    cache_hits,
    local_domain_hits,
    response_times,     \* the reservoir of response times
    sent,               \* the datagrams sent by the handler of the latest query
    resolved,           \* the names passed to resolve_upstream so far
    worker              \* "recv" in the receive loop, "hung" inside a handler
                        \* that never returns

serverVars == <<running, responses, total_queries, cache_hits, local_domain_hits,
                response_times, sent, resolved, worker>>

VARIABLES
    call,       \* a packet builder or name codec function being applied: its
                \* name and arguments
    outcome,    \* what that function has returned, Pending before it returns
    lookups     \* per thread inside PrecompiledResponses::get_response: its
                \* position, arguments and local copy of the packet

unitVars == <<call, outcome, lookups>>

VARIABLES
    threads,    \* per thread calling into the cache and the reservoir: the
                \* call it is in, its position, its locals
    mtx,        \* the owner of every std::mutex: Shard::mtx of each shard and
                \* stats_mutex
    arrivals    \* history: samples pushed into the reservoir so far

lockVars == <<threads, mtx, arrivals>>

vars == <<cacheVars, testVars, serverVars, unitVars, lockVars>>

-----------------------------------------------------------------------------
(* helpers *)

RECURSIVE BitAnd(_, _)
BitAnd(a, b) ==
    IF a = 0 \/ b = 0 THEN 0
    ELSE (a % 2) * (b % 2) + 2 * BitAnd(a \div 2, b \div 2)

RECURSIVE SumSeq(_)
SumSeq(s) == IF s = <<>> THEN 0 ELSE Head(s) + SumSeq(Tail(s))

\* std::hash<string>: implementation-defined, deterministic
Hash(domain) == SumSeq(domain)

get_shard_index(domain) == BitAnd(Hash(domain), NUM_SHARDS - 1)

\* unordered_map::erase(key)
MapErase(m, k) == [x \in (DOMAIN m) \ {k} |-> m[x]]

\* unordered_map::operator[] assignment
MapPut(m, k, v) == [x \in (DOMAIN m) \cup {k} |-> IF x = k THEN v ELSE m[x]]

RemoveAt(l, i) == SubSeq(l, 1, i - 1) \o SubSeq(l, i + 1, Len(l))

(***************************************************************************)
(* std::list<string> and its iterators.  lru_list is the sequence of the   *)
(* nodes' keys, front first.  A list iterator designates a node and stays  *)
(* valid while that node is linked; it is represented by the node's        *)
(* current index in the sequence, so linking or unlinking a node re-bases  *)
(* every stored iterator behind it.  An iterator whose node was unlinked   *)
(* is Dangling.                                                            *)
(***************************************************************************)
Dangling == 0

\* lru_list.erase(it); erasing through a dangling iterator is undefined and
\* is left as a no-op that keeps the iterator dangling
ListErase(sh, it) ==
    IF it \in 1 .. Len(sh.lru_list)
    THEN [sh EXCEPT
            !.lru_list = RemoveAt(sh.lru_list, it),
            !.lru_map = [k \in DOMAIN sh.lru_map |->
                            IF sh.lru_map[k] = it THEN Dangling
                            ELSE IF sh.lru_map[k] > it THEN sh.lru_map[k] - 1
                            ELSE sh.lru_map[k]]]
    ELSE sh

\* lru_list.push_front(key); lru_list.begin() is then index 1
ListPushFront(sh, key) ==
    [sh EXCEPT
        !.lru_list = <<key>> \o sh.lru_list,
        !.lru_map = [k \in DOMAIN sh.lru_map |->
                        IF sh.lru_map[k] = Dangling THEN Dangling
                        ELSE sh.lru_map[k] + 1]]

\* lru_list.pop_back()
ListPopBack(sh) == ListErase(sh, Len(sh.lru_list))

EmptyShard ==
    [entries |-> <<>>, lru_list |-> <<>>, lru_map |-> <<>>,
     hits |-> 0, misses |-> 0, evictions |-> 0]

-----------------------------------------------------------------------------
(* CacheEntry *)

\* a faulty variant: the constructor forgets the ttl
CacheEntry_no_ttl(ip, ttl_seconds, t) == [ip |-> ip, expiry |-> t, hits |-> 0]

\* CacheEntry(ip, ttl_seconds): the constructor reads the clock (t)
CacheEntry(ip, ttl_seconds, t) == [ip |-> ip, expiry |-> t + ttl_seconds, hits |-> 0]

\* a faulty variant: an entry is still valid at its expiry
is_valid_le(e, t) == t <= e.expiry

\* CacheEntry::is_valid, with the clock reading t
is_valid(e, t) == t < e.expiry

-----------------------------------------------------------------------------
(* Shard *)

\* one iteration of the sweep's loop body on an expired key
SweepOne(sh, k) ==
    LET s1 == IF k \in DOMAIN sh.lru_map
              THEN LET e == ListErase(sh, sh.lru_map[k])
                   IN  [e EXCEPT !.lru_map = MapErase(e.lru_map, k)]
              ELSE sh
    IN  [s1 EXCEPT !.entries = MapErase(s1.entries, k)]

RECURSIVE SweepAll(_, _)
SweepAll(sh, dead) ==
    IF dead = {} THEN sh
    ELSE LET k == CHOOSE x \in dead : TRUE
         IN  SweepAll(SweepOne(sh, k), dead \ {k})

\* a faulty variant: an entry is swept only after its expiry
cleanup_expired_gt(sh, t) ==
    SweepAll(sh, {k \in DOMAIN sh.entries : t > sh.entries[k].expiry})

\* Shard::cleanup_expired, with the clock reading t
cleanup_expired(sh, t) ==
    SweepAll(sh, {k \in DOMAIN sh.entries : t >= sh.entries[k].expiry})

\* a faulty variant: evicts only above the bound
evict_lru_gt(sh) ==
    IF Cardinality(DOMAIN sh.entries) > MAX_ENTRIES_PER_SHARD /\ sh.lru_list # <<>>
    THEN LET oldest == sh.lru_list[Len(sh.lru_list)]
             s1 == [sh EXCEPT !.entries = MapErase(sh.entries, oldest),
                              !.lru_map = MapErase(sh.lru_map, oldest)]
         IN  [ListPopBack(s1) EXCEPT !.evictions = @ + 1]
    ELSE sh

\* a faulty variant: evicts the front (most recently used) key
evict_lru_front(sh) ==
    IF Cardinality(DOMAIN sh.entries) >= MAX_ENTRIES_PER_SHARD /\ sh.lru_list # <<>>
    THEN LET newest == sh.lru_list[1]
             s1 == [sh EXCEPT !.entries = MapErase(sh.entries, newest),
                              !.lru_map = MapErase(sh.lru_map, newest)]
         IN  [ListErase(s1, 1) EXCEPT !.evictions = @ + 1]
    ELSE sh

\* Shard::evict_lru
evict_lru(sh) ==
    IF Cardinality(DOMAIN sh.entries) >= MAX_ENTRIES_PER_SHARD /\ sh.lru_list # <<>>
    THEN LET oldest == sh.lru_list[Len(sh.lru_list)]
             s1 == [sh EXCEPT !.entries = MapErase(sh.entries, oldest),
                              !.lru_map = MapErase(sh.lru_map, oldest)]
         IN  [ListPopBack(s1) EXCEPT !.evictions = @ + 1]
    ELSE sh

\* a faulty variant: the old node of the key is not unlinked
touch_lru_no_erase(sh, domain) ==
    LET s2 == ListPushFront(sh, domain)
    IN  [s2 EXCEPT !.lru_map = MapPut(s2.lru_map, domain, 1)]

\* a faulty variant: a key already in the list is left where it is
touch_lru_keep(sh, domain) ==
    IF domain \in DOMAIN sh.lru_map
    THEN sh
    ELSE LET s2 == ListPushFront(sh, domain)
         IN  [s2 EXCEPT !.lru_map = MapPut(s2.lru_map, domain, 1)]

\* Shard::touch_lru
touch_lru(sh, domain) ==
    LET s1 == IF domain \in DOMAIN sh.lru_map
              THEN ListErase(sh, sh.lru_map[domain])
              ELSE sh
        s2 == ListPushFront(s1, domain)
    IN  [s2 EXCEPT !.lru_map = MapPut(s2.lru_map, domain, 1)]

-----------------------------------------------------------------------------
(* FastDNSCache *)

\* a faulty variant: a hit also pushes the entry's expiry back
RecordHit_sliding(sh, domain) ==
    [sh EXCEPT !.entries[domain].hits = @ + 1, !.entries[domain].expiry = @ + 1,
               !.hits = @ + 1]

\* get, hit: it->second.hits and shard.hits fetch_add(1)
RecordHit(sh, domain) ==
    [sh EXCEPT !.entries[domain].hits = @ + 1, !.hits = @ + 1]

\* a faulty variant: a miss is not counted
RecordMiss_forgot(sh) == sh

\* get, miss: shard.misses.fetch_add(1)
RecordMiss(sh) == [sh EXCEPT !.misses = @ + 1]

\* FastDNSCache::get under the shard's lock: t1 is the clock read by the
\* sweep, t2 the clock read by is_valid.  Yields the shard and the result.
cache_get(sh, domain, t1, t2) ==
    LET s1 == cleanup_expired(sh, t1)
    IN  IF domain \in DOMAIN s1.entries /\ is_valid(s1.entries[domain], t2)
        THEN [shard |-> touch_lru(RecordHit(s1, domain), domain),
              found |-> TRUE, ip |-> s1.entries[domain].ip]
        ELSE LET s2 == IF domain \in DOMAIN s1.entries
                       THEN SweepOne(s1, domain)
                       ELSE s1
             IN  [shard |-> RecordMiss(s2), found |-> FALSE, ip |-> None]

\* FastDNSCache::set under the shard's lock: t1 is the clock read by the
\* sweep, t2 the clock read by the CacheEntry constructor.
cache_set(sh, domain, ip, ttl, t1, t2) ==
    LET s1 == cleanup_expired(sh, t1)
        s2 == evict_lru(s1)
        s3 == [s2 EXCEPT !.entries = MapPut(s2.entries, domain, CacheEntry(ip, ttl, t2))]
    IN  touch_lru(s3, domain)

RECURSIVE SumOver(_, _)
SumOver(f, S) ==
    IF S = {} THEN 0
    ELSE LET x == CHOOSE y \in S : TRUE IN f[x] + SumOver(f, S \ {x})

\* FastDNSCache::get_stats on the shards sh
stats_of(sh) ==
    [hits |-> SumOver([s \in ShardIds |-> sh[s].hits], ShardIds),
     misses |-> SumOver([s \in ShardIds |-> sh[s].misses], ShardIds),
     evictions |-> SumOver([s \in ShardIds |-> sh[s].evictions], ShardIds),
     size |-> SumOver([s \in ShardIds |-> Cardinality(DOMAIN sh[s].entries)], ShardIds)]

get_stats == stats_of(shards)

-----------------------------------------------------------------------------
(* the cache with its history variables, as one value *)

Cache == [shards |-> shards, get_calls |-> get_calls, installed |-> installed]

\* history: forget the installs whose time t + ttl has come
Prune(inst, t) == [k \in {x \in DOMAIN inst : t < inst[x].expiry} |-> inst[k]]

\* the keys a set's LRU eviction removes from shard sh
EvictedBy(sh, t1) ==
    LET s1 == cleanup_expired(sh, t1)
    IN  (DOMAIN s1.entries) \ (DOMAIN evict_lru(s1).entries)

\* cache.get(domain, ip): the shard is chosen by the hash and locked
FastDNSCache_get(c, domain, t1, t2) ==
    LET s == get_shard_index(domain)
        r == cache_get(c.shards[s], domain, t1, t2)
    IN  [cache |-> [shards |-> [c.shards EXCEPT ![s] = r.shard],
                    get_calls |-> [c.get_calls EXCEPT ![s] = @ + 1],
                    installed |-> Prune(c.installed, t2)],
         found |-> r.found, ip |-> r.ip]

\* cache.set(domain, ip, ttl)
FastDNSCache_set(c, domain, ip, ttl, t1, t2) ==
    LET s == get_shard_index(domain)
        gone == EvictedBy(c.shards[s], t1)
        kept == [k \in (DOMAIN c.installed) \ gone |-> c.installed[k]]
    IN  [shards |-> [c.shards EXCEPT ![s] = cache_set(c.shards[s], domain, ip, ttl, t1, t2)],
         get_calls |-> c.get_calls,
         installed |-> Prune(MapPut(kept, domain, [ip |-> ip, expiry |-> t2 + ttl]), t2)]

\* cache.cleanup_expired(): every shard in turn, each sweep reading the
\* clock (ts[s] is the reading of shard s's sweep)
FastDNSCache_cleanup_expired(c, ts) ==
    [shards |-> [s \in ShardIds |-> cleanup_expired(c.shards[s], ts[s])],
     get_calls |-> c.get_calls,
     installed |-> Prune(c.installed, ts[NUM_SHARDS - 1])]

\* the clock readings of one cleanup_expired call started at time t
SweepTimes(t) ==
    {ts \in [ShardIds -> {t + dt : dt \in Skews}] :
        \A s \in ShardIds \ {0} : ts[s] >= ts[s - 1]}

SetCache(c) ==
    /\ shards' = c.shards
    /\ get_calls' = c.get_calls
    /\ installed' = c.installed

-----------------------------------------------------------------------------
(* actions: the steady clock and one action per public cache operation *)

\* the cache, the test and the server after construction
InitProgram ==
    /\ shards = [s \in ShardIds |-> EmptyShard]
    /\ now = 0
    /\ get_calls = [s \in ShardIds |-> 0]
    /\ installed = <<>>
    /\ test = [pc |-> "prior", fill |-> 0, res |-> <<>>]
    /\ running = FALSE
    /\ responses = <<>>
    /\ total_queries = 0
    /\ cache_hits = 0
    /\ local_domain_hits = 0
    /\ response_times = <<>>
    /\ sent = <<>>
    /\ resolved = <<>>
    /\ worker = "recv"

Pending == [done |-> FALSE, value |-> <<>>]

Returned(value) == [done |-> TRUE, value |-> value]

Threads == {1, 2}

NoCall == [fn |-> "none"]

IdleLookup == [pc |-> "idle", domain |-> <<>>, query_id |-> <<>>, response |-> <<>>,
               found |-> FALSE]

NoLookups == [th \in Threads |-> IdleLookup]

\* a mutex that no thread owns
Free == 0

\* a thread outside every call
IdleThread ==
    [pc |-> "idle", prog |-> "none", ops |-> 0, domain |-> <<>>, ip |-> <<>>, ttl |-> 0,
     shard |-> 0, snap |-> <<>>, begin |-> <<>>, acc |-> <<>>, ret |-> <<>>]

\* no thread is in a call and every mutex is free
InitLocks ==
    /\ threads = [th \in Threads |-> IdleThread]
    /\ mtx = [shard |-> [s \in ShardIds |-> Free], stats |-> Free]
    /\ arrivals = 0

Init ==
    /\ InitProgram
    /\ call = NoCall
    /\ outcome = Pending
    /\ lookups = NoLookups
    /\ InitLocks

\* the steady clock advances
Tick ==
    /\ now < MaxTime
    /\ now' = now + 1
    /\ installed' = Prune(installed, now + 1)
    /\ UNCHANGED <<shards, get_calls, testVars, serverVars, unitVars, lockVars>>

Get(domain, dt) ==
    /\ now + dt <= MaxTime
    /\ SumOver(get_calls, ShardIds) < MaxGets
    /\ SetCache(FastDNSCache_get(Cache, domain, now, now + dt).cache)
    /\ now' = now + dt
    /\ UNCHANGED <<testVars, serverVars, unitVars, lockVars>>

Set(domain, ip, ttl, dt) ==
    /\ now + dt <= MaxTime
    /\ get_stats.evictions < MaxEvictions
    /\ SetCache(FastDNSCache_set(Cache, domain, ip, ttl, now, now + dt))
    /\ now' = now + dt
    /\ UNCHANGED <<testVars, serverVars, unitVars, lockVars>>

CleanupExpired(ts) ==
    /\ ts[NUM_SHARDS - 1] <= MaxTime
    /\ SetCache(FastDNSCache_cleanup_expired(Cache, ts))
    /\ now' = ts[NUM_SHARDS - 1]
    /\ UNCHANGED <<testVars, serverVars, unitVars, lockVars>>

Next ==
    \/ Tick
    \/ \E d \in Domains, dt \in Skews : Get(d, dt)
    \/ \E i \in SetInputs, dt \in Skews : Set(i.domain, i.ip, i.ttl, dt)
    \/ \E ts \in SweepTimes(now) : CleanupExpired(ts)

Spec == Init /\ [][Next]_vars

-----------------------------------------------------------------------------
(* test_ttl_lru_hybrid, "LRU ordering" (test_cache.cpp), with every key forced
   into one shard and any number of fillers *)

\* the ttl of every set of the test
TestTTL == 300

\* fillers set at most
MaxFill == 5

\* one-letter names that hash to the shard of "a", in alphabetical order
RECURSIVE SameShardFrom(_)
SameShardFrom(c) ==
    IF c > 122 THEN <<>>
    ELSE (IF get_shard_index(<<c>>) = get_shard_index(<<97>>) THEN <<<<c>>>> ELSE <<>>)
         \o SameShardFrom(c + 1)

TestKeys == SameShardFrom(97)

lru1 == TestKeys[1]

lru2 == TestKeys[2]

lru3 == TestKeys[3]

\* entries that the earlier parts of the test left in the shard
PriorKeys == {TestKeys[4], TestKeys[5]}

filler(i) == TestKeys[6 + i]

TestSet(domain, ttl, dt) ==
    /\ now + dt <= MaxTime
    /\ SetCache(FastDNSCache_set(Cache, domain, <<49>>, ttl, now, now + dt))
    /\ now' = now + dt
    /\ UNCHANGED <<serverVars, unitVars, lockVars>>

TestGet(domain, dt) ==
    /\ now + dt <= MaxTime
    /\ SetCache(FastDNSCache_get(Cache, domain, now, now + dt).cache)
    /\ now' = now + dt
    /\ UNCHANGED <<serverVars, unitVars, lockVars>>
    /\ test' = [test EXCEPT
                  !.res = Append(@, FastDNSCache_get(Cache, domain, now, now + dt).found),
                  !.pc = CASE test.pc = "get" -> "fill"
                           [] test.pc = "check1" -> "check2"
                           [] test.pc = "check2" -> "check3"
                           [] OTHER -> "done"]

\* an entry of the earlier parts of the test is left in the shard
TestPrior(k, ttl, dt) ==
    /\ test.pc = "prior"
    /\ k \notin DOMAIN shards[get_shard_index(k)].entries
    /\ TestSet(k, ttl, dt)
    /\ UNCHANGED test

\* cache.cleanup_expired()
TestCleanup(ts) ==
    /\ test.pc = "prior"
    /\ ts[NUM_SHARDS - 1] <= MaxTime
    /\ SetCache(FastDNSCache_cleanup_expired(Cache, ts))
    /\ now' = ts[NUM_SHARDS - 1]
    /\ test' = [test EXCEPT !.pc = "set1"]
    /\ UNCHANGED <<serverVars, unitVars, lockVars>>

\* cache.set("lru1.com" / "lru2.com" / "lru3.com", ., 300)
TestSetLru(dt) ==
    /\ test.pc \in {"set1", "set2", "set3"}
    /\ TestSet(CASE test.pc = "set1" -> lru1 [] test.pc = "set2" -> lru2 [] OTHER -> lru3,
               TestTTL, dt)
    /\ test' = [test EXCEPT !.pc = CASE test.pc = "set1" -> "set2"
                                     [] test.pc = "set2" -> "set3"
                                     [] OTHER -> "get"]

\* cache.get("lru1.com", ip)
TestGetLru1(dt) ==
    /\ test.pc = "get"
    /\ TestGet(lru1, dt)

\* cache.set("filler<i>.com", ., 300)
TestFill(dt) ==
    /\ test.pc = "fill"
    /\ test.fill < MaxFill
    /\ TestSet(filler(test.fill), TestTTL, dt)
    /\ test' = [test EXCEPT !.fill = @ + 1]

\* the loop of fillers ends
TestFillEnd ==
    /\ test.pc = "fill"
    /\ test' = [test EXCEPT !.pc = "check1"]
    /\ UNCHANGED <<cacheVars, serverVars, unitVars, lockVars>>

\* lru1_survived, lru2_survived, lru3_survived = cache.get(...)
TestCheck(dt) ==
    /\ test.pc \in {"check1", "check2", "check3"}
    /\ TestGet(CASE test.pc = "check1" -> lru1 [] test.pc = "check2" -> lru2 [] OTHER -> lru3,
               dt)

NextLRU ==
    \/ Tick
    \/ \E k \in PriorKeys, ttl \in {1, TestTTL}, dt \in Skews : TestPrior(k, ttl, dt)
    \/ \E ts \in SweepTimes(now) : TestCleanup(ts)
    \/ \E dt \in Skews : TestSetLru(dt)
    \/ \E dt \in Skews : TestGetLru1(dt)
    \/ \E dt \in Skews : TestFill(dt)
    \/ TestFillEnd
    \/ \E dt \in Skews : TestCheck(dt)

SpecLRU == Init /\ [][NextLRU]_vars

\* C7, as claimed: with more fillers than the shard holds, lru1 survives and
\* lru2 and lru3 do not.
C7_MruSurvivesOverfill ==
    (test.pc = "done" /\ test.fill > MAX_ENTRIES_PER_SHARD)
        => test.res = <<TRUE, TRUE, FALSE, FALSE>>

\* C7, amended: with exactly MAX_ENTRIES_PER_SHARD - 1 fillers lru1 survives
\* and lru2 and lru3 do not; with MAX_ENTRIES_PER_SHARD fillers or more all
\* three are gone.  (test.res starts with the result of the get of lru1 that
\* precedes the fillers.)
C7_MruSurvivesLongest ==
    test.pc = "done" =>
        /\ test.fill = MAX_ENTRIES_PER_SHARD - 1
              => test.res = <<TRUE, TRUE, FALSE, FALSE>>
        /\ test.fill >= MAX_ENTRIES_PER_SHARD
              => test.res = <<TRUE, FALSE, FALSE, FALSE>>

\* the test has ended after MAX_ENTRIES_PER_SHARD - 1 fillers
C7_Witness ==
    /\ test.pc = "done"
    /\ test.fill = MAX_ENTRIES_PER_SHARD - 1
    /\ test.res = <<TRUE, TRUE, FALSE, FALSE>>

-----------------------------------------------------------------------------
(* the claims about the cache *)

ShardOf(domain) == shards[get_shard_index(domain)]

Size(sh) == Cardinality(DOMAIN sh.entries)

ListSet(l) == {l[i] : i \in 1 .. Len(l)}

\* the keys of a shard that a sweep reading t keeps, and their LRU order
Live(sh, t) == {k \in DOMAIN sh.entries : t < sh.entries[k].expiry}

LiveOrder(sh, t) == SelectSeq(sh.lru_list, LAMBDA k : k \in Live(sh, t))

ShardConsistent(sh) ==
    /\ DOMAIN sh.entries = DOMAIN sh.lru_map
    /\ DOMAIN sh.entries = ListSet(sh.lru_list)
    /\ \A i, j \in 1 .. Len(sh.lru_list) : i # j => sh.lru_list[i] # sh.lru_list[j]
    /\ \A k \in DOMAIN sh.lru_map :
          /\ sh.lru_map[k] \in 1 .. Len(sh.lru_list)
          /\ sh.lru_list[sh.lru_map[k]] = k

\* C1: in every shard, after every completed cache operation, entries, lru_map
\* and lru_list hold the same keys, lru_list holds no key twice, and lru_map[k]
\* designates the node of lru_list that holds k.
C1_KeySetsAgree == \A s \in ShardIds : ShardConsistent(shards[s])

\* a shard with several entries, after a get hit and after an LRU eviction
C1_Witness ==
    \E s \in ShardIds :
        /\ Size(shards[s]) >= 2
        /\ shards[s].hits >= 1
        /\ shards[s].evictions >= 1

\* C2: every shard holds at most MAX_ENTRIES_PER_SHARD entries, the size that
\* get_stats reports is at most CACHE_SIZE, and no set leaves its shard above
\* the bound.
C2_SizeBound ==
    /\ \A s \in ShardIds : Size(shards[s]) <= MAX_ENTRIES_PER_SHARD
    /\ get_stats.size <= CACHE_SIZE
    /\ \A i \in SetInputs, dt \in Skews :
          Size(cache_set(ShardOf(i.domain), i.domain, i.ip, i.ttl, now, now + dt))
              <= MAX_ENTRIES_PER_SHARD

\* a full shard after an LRU eviction
C2_Witness ==
    \E s \in ShardIds :
        /\ Size(shards[s]) = MAX_ENTRIES_PER_SHARD
        /\ shards[s].evictions >= 1

\* C3: a get that returns true returns an entry whose expiry is after the
\* clock reading of its validity check, also when the clock advances between
\* the sweep and that check.
C3_NoExpiredReturned ==
    \A d \in Domains, dt \in Skews :
        LET g == cache_get(ShardOf(d), d, now, now + dt)
        IN  g.found =>
              /\ d \in DOMAIN ShardOf(d).entries
              /\ now + dt < ShardOf(d).entries[d].expiry
              /\ now + dt < g.shard.entries[d].expiry
              /\ g.ip = ShardOf(d).entries[d].ip

\* an entry that a get has returned and that expires between the sweep and
\* the validity check of a get called now
C3_Witness ==
    \E d \in Domains :
        /\ d \in DOMAIN ShardOf(d).entries
        /\ ShardOf(d).entries[d].hits >= 1
        /\ cache_get(ShardOf(d), d, now, now).found
        /\ ~cache_get(ShardOf(d), d, now, now + 1).found

\* C4: a set on a key that is present and not expired leaves the number of
\* (unexpired) entries of its shard unchanged and does not increment
\* evictions, whatever the fill level of the shard.
C4_OverwriteKeepsSize ==
    \A i \in SetInputs, dt \in Skews :
        LET sh == ShardOf(i.domain)
            r == cache_set(sh, i.domain, i.ip, i.ttl, now, now + dt)
        IN  i.domain \in Live(sh, now) =>
              /\ Size(r) = Cardinality(Live(sh, now))
              /\ r.evictions = sh.evictions

\* C5: a set of a new key that finds MAX_ENTRIES_PER_SHARD entries after the
\* sweep removes exactly the key at the back of lru_list from entries, lru_map
\* and lru_list and increments evictions by 1; below the bound it evicts nothing.
C5_EvictsBackAtBound ==
    \A i \in SetInputs, dt \in Skews :
        LET sh == ShardOf(i.domain)
            r == cache_set(sh, i.domain, i.ip, i.ttl, now, now + dt)
            live == Live(sh, now)
            order == LiveOrder(sh, now)
            kept == IF Cardinality(live) >= MAX_ENTRIES_PER_SHARD
                    THEN live \ {order[Len(order)]}
                    ELSE live
        IN  i.domain \notin live =>
              /\ DOMAIN r.entries = kept \cup {i.domain}
              /\ DOMAIN r.lru_map = kept \cup {i.domain}
              /\ ListSet(r.lru_list) = kept \cup {i.domain}
              /\ Len(r.lru_list) = Cardinality(kept) + 1
              /\ r.evictions = sh.evictions
                    + (IF Cardinality(live) >= MAX_ENTRIES_PER_SHARD THEN 1 ELSE 0)

\* a full shard of unexpired entries after an LRU eviction: the next set of a
\* new key evicts again
C5_Witness ==
    \E s \in ShardIds :
        /\ Cardinality(Live(shards[s], now)) = MAX_ENTRIES_PER_SHARD
        /\ shards[s].evictions >= 1

\* C6: a get hit on k and every set of k leave k at the front of lru_list and
\* the other surviving keys in their order; a get miss leaves the surviving
\* keys in their order.
C6_TouchMovesToFront ==
    /\ \A d \in Domains, dt \in Skews :
          LET sh == ShardOf(d)
              g == cache_get(sh, d, now, now + dt)
              rest == SelectSeq(sh.lru_list,
                                LAMBDA k : k \in DOMAIN g.shard.entries /\ k # d)
          IN  IF g.found
              THEN g.shard.lru_list = <<d>> \o rest
              ELSE /\ g.shard.lru_list = rest
                   /\ d \notin DOMAIN g.shard.entries
    /\ \A i \in SetInputs, dt \in Skews :
          LET sh == ShardOf(i.domain)
              r == cache_set(sh, i.domain, i.ip, i.ttl, now, now + dt)
              rest == SelectSeq(sh.lru_list,
                                LAMBDA k : k \in DOMAIN r.entries /\ k # i.domain)
          IN  r.lru_list = <<i.domain>> \o rest

\* a key that a get has returned stands at the front, before keys set earlier
C6_Witness ==
    \E s \in ShardIds :
        /\ Len(shards[s].lru_list) >= 3
        /\ shards[s].entries[shards[s].lru_list[1]].hits >= 1

\* C8: get(d) returns an entry, with the ip of the most recent set(d, ip, ttl),
\* exactly while the clock reading of its validity check is before that set's
\* t + ttl and d was not LRU-evicted since; at or after t + ttl it returns
\* none (so at once for ttl = 0), whatever happens to the other keys.
C8_TtlDecidesGet ==
    \A d \in Domains, dt \in Skews :
        LET g == cache_get(ShardOf(d), d, now, now + dt)
            live == d \in DOMAIN installed /\ now + dt < installed[d].expiry
        IN  /\ g.found <=> live
            /\ g.found => g.ip = installed[d].ip

\* a get has returned an entry that is still to expire, while another entry
\* of its shard has expired
C8_Witness ==
    \E s \in ShardIds, d, k \in Domains :
        /\ d \in DOMAIN installed
        /\ d \in DOMAIN shards[s].entries
        /\ shards[s].entries[d].hits >= 1
        /\ k \in DOMAIN shards[s].entries
        /\ k \notin DOMAIN installed
        /\ now >= 1

\* C9: in every shard hits + misses is the number of completed get calls on
\* it; a get adds 1 to exactly one of the two, set and cleanup_expired change
\* neither.
C9_HitsPlusMisses ==
    /\ \A s \in ShardIds : shards[s].hits + shards[s].misses = get_calls[s]
    /\ \A d \in Domains, dt \in Skews :
          LET sh == ShardOf(d)
              g == cache_get(sh, d, now, now + dt)
          IN  IF g.found
              THEN g.shard.hits = sh.hits + 1 /\ g.shard.misses = sh.misses
              ELSE g.shard.hits = sh.hits /\ g.shard.misses = sh.misses + 1
    /\ \A i \in SetInputs, dt \in Skews :
          LET sh == ShardOf(i.domain)
              r == cache_set(sh, i.domain, i.ip, i.ttl, now, now + dt)
          IN  r.hits = sh.hits /\ r.misses = sh.misses
    /\ \A s \in ShardIds, dt \in Skews :
          LET r == cleanup_expired(shards[s], now + dt)
          IN  r.hits = shards[s].hits /\ r.misses = shards[s].misses

\* a shard on which a get has missed after sets
C9_Witness ==
    \E s \in ShardIds :
        /\ get_calls[s] >= 1
        /\ shards[s].misses >= 1
        /\ Size(shards[s]) >= 1

-----------------------------------------------------------------------------
(* the DNS server: wire format.  A datagram and a string are sequences of
   octets; data[i] of the source is data[i + 1] here. *)

RECURSIVE BitOr(_, _)
BitOr(a, b) ==
    IF a = 0 THEN b
    ELSE IF b = 0 THEN a
    ELSE (IF a % 2 = 1 \/ b % 2 = 1 THEN 1 ELSE 0) + 2 * BitOr(a \div 2, b \div 2)

\* the octets in memory of a 16 bit value in network order
htons(v) == <<(v \div 256) % 256, v % 256>>

\* the octets in memory of a 32 bit value in network order
htonl(v) == <<(v \div 16777216) % 256, (v \div 65536) % 256, (v \div 256) % 256, v % 256>>

\* the value of two octets in memory that hold a 16 bit value in network order
ntohs(hi, lo) == hi * 256 + lo

\* ::tolower on every character of a string
tolower(str) == [i \in 1 .. Len(str) |-> IF str[i] \in 65 .. 90 THEN str[i] + 32 ELSE str[i]]

IndexOf(str, c) == CHOOSE i \in 1 .. Len(str) : str[i] = c /\ \A j \in 1 .. (i - 1) : str[j] # c

\* the labels that repeated getline(iss, label, '.') yields
RECURSIVE getlines(_)
getlines(str) ==
    IF str = <<>> THEN <<>>
    ELSE IF \E i \in 1 .. Len(str) : str[i] = 46
         THEN <<SubSeq(str, 1, IndexOf(str, 46) - 1)>>
                 \o getlines(SubSeq(str, IndexOf(str, 46) + 1, Len(str)))
         ELSE <<str>>

RECURSIVE PushLabels(_)
PushLabels(labels) ==
    IF labels = <<>> THEN <<>>
    ELSE <<Len(Head(labels)) % 256>> \o Head(labels) \o PushLabels(Tail(labels))

encode_domain_name(domain) == PushLabels(getlines(domain)) \o <<0>>

\* the parts of a string between its dots, empty ones included
RECURSIVE SplitDots(_)
SplitDots(str) ==
    IF \E i \in 1 .. Len(str) : str[i] = 46
    THEN <<SubSeq(str, 1, IndexOf(str, 46) - 1)>>
            \o SplitDots(SubSeq(str, IndexOf(str, 46) + 1, Len(str)))
    ELSE <<str>>

DigitVal(c) ==
    IF c \in 48 .. 57 THEN c - 48
    ELSE IF c \in 97 .. 102 THEN c - 87
    ELSE IF c \in 65 .. 70 THEN c - 55
    ELSE 99

\* the base strtoul(., ., 0) reads a number in
NumBase(part) ==
    IF Len(part) >= 2 /\ part[1] = 48 /\ part[2] \in {88, 120} THEN 16
    ELSE IF Len(part) >= 2 /\ part[1] = 48 THEN 8
    ELSE 10

NumDigits(part) == IF NumBase(part) = 16 THEN SubSeq(part, 3, Len(part)) ELSE part

RECURSIVE NumVal(_, _)
NumVal(digits, base) ==
    IF digits = <<>> THEN 0
    ELSE NumVal(SubSeq(digits, 1, Len(digits) - 1), base) * base + DigitVal(digits[Len(digits)])

NumOk(part) ==
    /\ NumDigits(part) # <<>>
    /\ \A i \in 1 .. Len(NumDigits(part)) : DigitVal(NumDigits(part)[i]) < NumBase(part)

PartVal(part) == NumVal(NumDigits(part), NumBase(part))

\* the low n octets of v, most significant first
RECURSIVE LowOctets(_, _)
LowOctets(v, n) == IF n = 0 THEN <<>> ELSE LowOctets(v \div 256, n - 1) \o <<v % 256>>

\* inet_aton of the C library on a string without white space: one to four
\* numbers (decimal, octal with a leading 0, hexadecimal with a leading 0x)
\* separated by dots, the last one filling the remaining octets
inet_aton(cp) ==
    LET parts == SplitDots(cp)
        n == Len(parts)
        ok == /\ n <= 4
              /\ \A i \in 1 .. n : NumOk(parts[i])
              /\ \A i \in 1 .. (n - 1) : PartVal(parts[i]) <= 255
              /\ PartVal(parts[n]) < 256 ^ (5 - n)
    IN  [ok |-> ok,
         addr |-> IF ok THEN [i \in 1 .. (n - 1) |-> PartVal(parts[i])]
                                \o LowOctets(PartVal(parts[n]), 5 - n)
                  ELSE <<>>]

parse_dns_header(data) ==
    IF Len(data) < 12 THEN [ok |-> FALSE]
    ELSE [ok |-> TRUE,
          id |-> <<data[1], data[2]>>,
          flags |-> ntohs(data[3], data[4]),
          qdcount |-> ntohs(data[5], data[6]),
          ancount |-> ntohs(data[7], data[8]),
          nscount |-> ntohs(data[9], data[10]),
          arcount |-> ntohs(data[11], data[12])]

\* a faulty variant of the loop of parse_domain_name: every pointer, not only
\* the first, sets the offset to return to
RECURSIVE parse_loop_last_pointer(_, _, _, _, _, _, _)
parse_loop_last_pointer(data, oob, offset, result, jumped, original_offset, seen) ==
    LET len == Len(data)
        label_len == data[offset + 1]
        second == IF offset + 1 < len THEN data[offset + 2] ELSE oob
        out(off) == [status |-> "ok", name |-> result,
                     offset |-> IF jumped THEN original_offset ELSE off]
    IN  IF ~(offset < len) THEN out(offset)
        ELSE IF offset \in seen THEN [status |-> "hang", name |-> <<>>, offset |-> offset]
        ELSE IF label_len = 0 THEN out(offset + 1)
        ELSE IF BitAnd(label_len, 192) = 192
             THEN parse_loop_last_pointer(data, oob,
                                          BitOr(BitAnd(label_len, 63) * 256, second), result,
                                          TRUE, offset + 2, seen \cup {offset})
        ELSE IF offset + 1 + label_len > len
             THEN [status |-> "ok", name |-> <<>>, offset |-> offset]
        ELSE parse_loop_last_pointer(data, oob, offset + 1 + label_len,
                                     (IF result # <<>> THEN result \o <<46>> ELSE result)
                                         \o SubSeq(data, offset + 2, offset + 1 + label_len),
                                     jumped, original_offset, seen \cup {offset})

\* the loop of parse_domain_name.  oob is the octet that a read at an index
\* >= len yields.  The next offset depends on the offset alone, so a second
\* visit of an offset means that the loop never ends: status "hang".
RECURSIVE parse_loop(_, _, _, _, _, _, _)
parse_loop(data, oob, offset, result, jumped, original_offset, seen) ==
    LET len == Len(data)
        label_len == data[offset + 1]
        second == IF offset + 1 < len THEN data[offset + 2] ELSE oob
        out(off) == [status |-> "ok", name |-> result,
                     offset |-> IF jumped THEN original_offset ELSE off]
    IN  IF ~(offset < len) THEN out(offset)
        ELSE IF offset \in seen THEN [status |-> "hang", name |-> <<>>, offset |-> offset]
        ELSE IF label_len = 0 THEN out(offset + 1)
        ELSE IF BitAnd(label_len, 192) = 192
             THEN parse_loop(data, oob, BitOr(BitAnd(label_len, 63) * 256, second), result,
                             TRUE, IF jumped THEN original_offset ELSE offset + 2,
                             seen \cup {offset})
        ELSE IF offset + 1 + label_len > len
             THEN [status |-> "ok", name |-> <<>>, offset |-> offset]
        ELSE parse_loop(data, oob, offset + 1 + label_len,
                        (IF result # <<>> THEN result \o <<46>> ELSE result)
                            \o SubSeq(data, offset + 2, offset + 1 + label_len),
                        jumped, original_offset, seen \cup {offset})

parse_domain_name(data, offset, oob) == parse_loop(data, oob, offset, <<>>, FALSE, offset, {})

parse_dns_question(data, offset, oob) ==
    LET n == parse_domain_name(data, offset, oob)
    IN  IF n.status = "hang" THEN [status |-> "hang"]
        ELSE IF n.name = <<>> \/ n.offset + 4 > Len(data) THEN [status |-> "fail"]
        ELSE [status |-> "ok",
              qname |-> n.name,
              qtype |-> ntohs(data[n.offset + 1], data[n.offset + 2]),
              qclass |-> ntohs(data[n.offset + 3], data[n.offset + 4]),
              offset |-> n.offset + 4]

\* a faulty variant: the address octets are appended in reverse order
build_dns_response_reversed(query_id, domain, ip) ==
    query_id \o htons(33152) \o htons(1) \o htons(1) \o htons(0) \o htons(0)
        \o encode_domain_name(domain) \o htons(1) \o htons(1)
        \o <<192, 12>>
        \o htons(1) \o htons(1) \o htonl(300) \o htons(4)
        \o (IF inet_aton(ip).ok
            THEN [i \in 1 .. 4 |-> inet_aton(ip).addr[5 - i]]
            ELSE <<>>)

build_dns_response(query_id, domain, ip) ==
    query_id \o htons(33152) \o htons(1) \o htons(1) \o htons(0) \o htons(0)
        \o encode_domain_name(domain) \o htons(1) \o htons(1)
        \o <<192, 12>>
        \o htons(1) \o htons(1) \o htonl(300) \o htons(4)
        \o (IF inet_aton(ip).ok THEN inet_aton(ip).addr ELSE <<>>)

\* a faulty variant: the rcode is left out of the flags
build_error_response_plain(query_id, rcode) ==
    query_id \o htons(33152) \o htons(0) \o htons(0) \o htons(0) \o htons(0)

build_error_response(query_id, rcode) ==
    query_id \o htons(BitOr(33152, rcode)) \o htons(0) \o htons(0) \o htons(0) \o htons(0)

\* a faulty variant: the name is stored without its closing zero octet
add_local_domain_open(domain, ip) ==
    <<0, 0>> \o htons(33152) \o htons(1) \o htons(1) \o htons(0) \o htons(0)
        \o PushLabels(getlines(domain))
        \o htons(1) \o htons(1)
        \o <<192, 12>>
        \o htons(1) \o htons(1) \o htonl(300) \o htons(4)
        \o (IF inet_aton(ip).ok THEN inet_aton(ip).addr ELSE <<>>)

\* the packet that PrecompiledResponses::add_local_domain stores
add_local_domain(domain, ip) ==
    <<0, 0>> \o htons(33152) \o htons(1) \o htons(1) \o htons(0) \o htons(0)
        \o PushLabels(getlines(domain)) \o <<0>>
        \o htons(1) \o htons(1)
        \o <<192, 12>>
        \o htons(1) \o htons(1) \o htonl(300) \o htons(4)
        \o (IF inet_aton(ip).ok THEN inet_aton(ip).addr ELSE <<>>)

\* PrecompiledResponses::get_response
get_response(table, domain, query_id) ==
    IF domain \notin DOMAIN table THEN [found |-> FALSE, response |-> <<>>]
    ELSE [found |-> TRUE,
          response |-> query_id \o SubSeq(table[domain], 3, Len(table[domain]))]

-----------------------------------------------------------------------------
(* the DNS server: the dispatcher *)

\* queries handled at most
MaxQueries == 3

\* the reservoir holds at most this many samples after an append
MAX_RESPONSE_TIMES == 2

\* the ttl of an entry that the dispatcher installs
UpstreamTTL == 300

Server ==
    [cache |-> Cache, running |-> running, responses |-> responses,
     total_queries |-> total_queries, cache_hits |-> cache_hits,
     local_domain_hits |-> local_domain_hits, response_times |-> response_times,
     sent |-> sent, resolved |-> resolved, worker |-> worker]

SetServer(s) ==
    /\ SetCache(s.cache)
    /\ running' = s.running
    /\ responses' = s.responses
    /\ total_queries' = s.total_queries
    /\ cache_hits' = s.cache_hits
    /\ local_domain_hits' = s.local_domain_hits
    /\ response_times' = s.response_times
    /\ sent' = s.sent
    /\ resolved' = s.resolved
    /\ worker' = s.worker

sendto(s, packet) == [s EXCEPT !.sent = Append(@, packet)]

\* response_times.push_back(.) and the trim that follows it
push_response_time(s, sample) ==
    LET times == Append(s.response_times, sample)
    IN  [s EXCEPT !.response_times =
            IF Len(times) > MAX_RESPONSE_TIMES
            THEN SubSeq(times, (MAX_RESPONSE_TIMES \div 2) + 1, Len(times))
            ELSE times]

\* handle_query from the first fast path on, with the cache probed before
\* the pre-compiled table
lookup_cache_first(s, query_id, qname, domain, up, t1, t2) ==
    LET g == FastDNSCache_get(s.cache, domain, t1, t2)
        local == get_response(s.responses, domain, query_id)
        s1 == [s EXCEPT !.cache = g.cache]
    IN  IF g.found
        THEN push_response_time(
                 sendto([s1 EXCEPT !.cache_hits = @ + 1],
                        build_dns_response(query_id, qname, g.ip)), t2 - t1)
        ELSE IF local.found
        THEN [sendto(s1, local.response) EXCEPT !.local_domain_hits = @ + 1]
        ELSE
            LET s2 == [s1 EXCEPT !.resolved = Append(@, domain)]
            IN  IF up.ok
                THEN push_response_time(
                         sendto([s2 EXCEPT !.cache = FastDNSCache_set(g.cache, domain, up.ip,
                                                                      UpstreamTTL, t2, t2)],
                                build_dns_response(query_id, qname, up.ip)), t2 - t1)
                ELSE push_response_time(sendto(s2, build_error_response(query_id, 2)), t2 - t1)

\* a faulty variant: a failure of upstream is cached like an answer
lookup_negative_cache(s, query_id, qname, domain, up, t1, t2) ==
    LET local == get_response(s.responses, domain, query_id)
    IN  IF local.found
        THEN [sendto(s, local.response) EXCEPT !.local_domain_hits = @ + 1]
        ELSE
            LET g == FastDNSCache_get(s.cache, domain, t1, t2)
                s1 == [s EXCEPT !.cache = g.cache]
            IN  IF g.found
                THEN push_response_time(
                         sendto([s1 EXCEPT !.cache_hits = @ + 1],
                                build_dns_response(query_id, qname, g.ip)), t2 - t1)
                ELSE
                    LET s2 == [s1 EXCEPT !.resolved = Append(@, domain),
                                         !.cache = FastDNSCache_set(g.cache, domain, up.ip,
                                                                    UpstreamTTL, t2, t2)]
                    IN  IF up.ok
                        THEN push_response_time(
                                 sendto(s2, build_dns_response(query_id, qname, up.ip)),
                                 t2 - t1)
                        ELSE push_response_time(
                                 sendto(s2, build_error_response(query_id, 2)), t2 - t1)

\* a faulty variant: an answer of upstream is not installed in the cache
lookup_no_install(s, query_id, qname, domain, up, t1, t2) ==
    LET local == get_response(s.responses, domain, query_id)
    IN  IF local.found
        THEN [sendto(s, local.response) EXCEPT !.local_domain_hits = @ + 1]
        ELSE
            LET g == FastDNSCache_get(s.cache, domain, t1, t2)
                s1 == [s EXCEPT !.cache = g.cache]
            IN  IF g.found
                THEN push_response_time(
                         sendto([s1 EXCEPT !.cache_hits = @ + 1],
                                build_dns_response(query_id, qname, g.ip)), t2 - t1)
                ELSE
                    LET s2 == [s1 EXCEPT !.resolved = Append(@, domain)]
                    IN  IF up.ok
                        THEN push_response_time(
                                 sendto(s2, build_dns_response(query_id, qname, up.ip)),
                                 t2 - t1)
                        ELSE push_response_time(
                                 sendto(s2, build_error_response(query_id, 2)), t2 - t1)

\* a faulty variant: an answer from the pre-compiled table is timed like the
\* others
lookup_local_sampled(s, query_id, qname, domain, up, t1, t2) ==
    LET local == get_response(s.responses, domain, query_id)
    IN  IF local.found
        THEN push_response_time(
                 [sendto(s, local.response) EXCEPT !.local_domain_hits = @ + 1], t2 - t1)
        ELSE
            LET g == FastDNSCache_get(s.cache, domain, t1, t2)
                s1 == [s EXCEPT !.cache = g.cache]
            IN  IF g.found
                THEN push_response_time(
                         sendto([s1 EXCEPT !.cache_hits = @ + 1],
                                build_dns_response(query_id, qname, g.ip)), t2 - t1)
                ELSE
                    LET s2 == [s1 EXCEPT !.resolved = Append(@, domain)]
                    IN  IF up.ok
                        THEN push_response_time(
                                 sendto([s2 EXCEPT !.cache =
                                            FastDNSCache_set(g.cache, domain, up.ip,
                                                             UpstreamTTL, t2, t2)],
                                        build_dns_response(query_id, qname, up.ip)), t2 - t1)
                        ELSE push_response_time(
                                 sendto(s2, build_error_response(query_id, 2)), t2 - t1)

\* handle_query from the first fast path on: the pre-compiled table, the
\* cache, the upstream resolver.  up is what resolve_upstream yields if it is
\* called; the clock reads t1 when the cache is probed and t2 from the
\* validity check of the probe on.
lookup(s, query_id, qname, domain, up, t1, t2) ==
    LET local == get_response(s.responses, domain, query_id)
    IN  IF local.found
        THEN [sendto(s, local.response) EXCEPT !.local_domain_hits = @ + 1]
        ELSE
            LET g == FastDNSCache_get(s.cache, domain, t1, t2)
                s1 == [s EXCEPT !.cache = g.cache]
            IN  IF g.found
                THEN push_response_time(
                         sendto([s1 EXCEPT !.cache_hits = @ + 1],
                                build_dns_response(query_id, qname, g.ip)), t2 - t1)
                ELSE
                    LET s2 == [s1 EXCEPT !.resolved = Append(@, domain)]
                    IN  IF up.ok
                        THEN push_response_time(
                                 sendto([s2 EXCEPT !.cache =
                                            FastDNSCache_set(g.cache, domain, up.ip,
                                                             UpstreamTTL, t2, t2)],
                                        build_dns_response(query_id, qname, up.ip)), t2 - t1)
                        ELSE push_response_time(
                                 sendto(s2, build_error_response(query_id, 2)), t2 - t1)

\* a faulty variant: only datagrams with a header are counted
handle_query_counts_parsed(s, data, oob, up, t1, t2) ==
    LET s0 == [s EXCEPT !.sent = <<>>]
        s1 == [s0 EXCEPT !.total_queries = @ + 1]
        header == parse_dns_header(data)
        question == parse_dns_question(data, 12, oob)
    IN  IF ~header.ok THEN s0
        ELSE IF header.qdcount # 1 THEN s1
        ELSE IF question.status = "hang" THEN [s1 EXCEPT !.worker = "hung"]
        ELSE IF question.status # "ok" THEN s1
        ELSE IF question.qtype # 1 THEN sendto(s1, build_error_response(header.id, 4))
        ELSE lookup(s1, header.id, question.qname, tolower(question.qname), up, t1, t2)

\* a faulty variant: the number of questions is not looked at
handle_query_any_qdcount(s, data, oob, up, t1, t2) ==
    LET s0 == [s EXCEPT !.total_queries = @ + 1, !.sent = <<>>]
        header == parse_dns_header(data)
        question == parse_dns_question(data, 12, oob)
    IN  IF ~header.ok THEN s0
        ELSE IF question.status = "hang" THEN [s0 EXCEPT !.worker = "hung"]
        ELSE IF question.status # "ok" THEN s0
        ELSE IF question.qtype # 1 THEN sendto(s0, build_error_response(header.id, 4))
        ELSE lookup(s0, header.id, question.qname, tolower(question.qname), up, t1, t2)

handle_query(s, data, oob, up, t1, t2) ==
    LET s0 == [s EXCEPT !.total_queries = @ + 1, !.sent = <<>>]
        header == parse_dns_header(data)
        question == parse_dns_question(data, 12, oob)
    IN  IF ~header.ok THEN s0
        ELSE IF header.qdcount # 1 THEN s0
        ELSE IF question.status = "hang" THEN [s0 EXCEPT !.worker = "hung"]
        ELSE IF question.status # "ok" THEN s0
        ELSE IF question.qtype # 1 THEN sendto(s0, build_error_response(header.id, 4))
        ELSE lookup(s0, header.id, question.qname, tolower(question.qname), up, t1, t2)

\* the datagrams that arrive
QueryId == <<171, 205>>

Query(qdcount, name, qtype, qclass) ==
    QueryId \o <<1, 0>> \o htons(qdcount) \o htons(0) \o htons(0) \o htons(0)
        \o name \o htons(qtype) \o htons(qclass)

Datagrams ==
    {Query(1, <<1, 97, 0>>, 1, 1),              \* a      A  IN
     Query(1, <<1, 65, 0>>, 1, 1),              \* A      A  IN
     Query(1, <<1, 108, 0>>, 1, 1),             \* l      A  IN
     Query(1, <<1, 76, 0>>, 1, 1),              \* L      A  IN
     Query(1, <<1, 97, 0>>, 28, 1),             \* a      AAAA IN
     Query(1, <<1, 97, 0>>, 1, 3),              \* a      A  CH
     Query(2, <<1, 97, 0>>, 1, 1),              \* two questions
     Query(1, <<0>>, 1, 1),                     \* the root name
     Query(1, <<192, 18>>, 1, 1) \o <<1, 108, 0>>,   \* a pointer to "l" behind the question
     Query(1, <<192, 12>>, 1, 1),               \* a pointer at itself
     QueryId \o <<1, 0>> \o htons(1) \o htons(0) \o htons(0) \o htons(0) \o <<5, 97>>,
     QueryId \o <<1, 0>> \o htons(1) \o htons(0) \o htons(0) \o htons(0) \o <<192>>,
     QueryId \o <<1, 0>>}

\* what a read behind the end of the datagram yields
OobBytes == {0, 12}

\* what resolve_upstream yields
UpstreamResults ==
    {[ok |-> FALSE, ip |-> <<>>],
     [ok |-> TRUE, ip |-> <<49, 46, 50, 46, 51, 46, 52>>],
     [ok |-> TRUE, ip |-> <<53, 46, 54, 46, 55, 46, 56>>]}

LocalDomains == {<<108>>}

LocalIPs == {<<49, 46, 50, 46, 51, 46, 52>>, <<120>>}

\* DNSServer::add_local_domain, called before start as main does
AddLocalDomain(domain, ip) ==
    /\ ~running
    /\ responses' = MapPut(responses, domain, add_local_domain(domain, ip))
    /\ UNCHANGED <<cacheVars, testVars, unitVars, running, total_queries, cache_hits,
                   local_domain_hits, response_times, sent, resolved, worker, lockVars>>

\* DNSServer::start
Start ==
    /\ ~running
    /\ running' = TRUE
    /\ UNCHANGED <<cacheVars, testVars, unitVars, responses, total_queries, cache_hits,
                   local_domain_hits, response_times, sent, resolved, worker, lockVars>>

\* a worker receives a datagram and handles it
HandleQuery(data, oob, up, dt) ==
    /\ running
    /\ worker = "recv"
    /\ total_queries < MaxQueries
    /\ now + dt <= MaxTime
    /\ SetServer(handle_query(Server, data, oob, up, now, now + dt))
    /\ now' = now + dt
    /\ UNCHANGED <<testVars, unitVars, lockVars>>

NextServer ==
    \/ Tick
    \/ \E d \in LocalDomains, ip \in LocalIPs : AddLocalDomain(d, ip)
    \/ Start
    \/ \E data \in Datagrams, oob \in OobBytes, up \in UpstreamResults, dt \in Skews :
          HandleQuery(data, oob, up, dt)

SpecServer == Init /\ [][NextServer]_vars

\* a datagram that parses to one question of type A and class IN
WellFormedA(data, oob) ==
    /\ parse_dns_header(data).ok
    /\ parse_dns_header(data).qdcount = 1
    /\ parse_dns_question(data, 12, oob).status = "ok"
    /\ parse_dns_question(data, 12, oob).qtype = 1
    /\ parse_dns_question(data, 12, oob).qclass = 1

\* C10: for a well-formed single-question A query the sources are consulted
\* in the order table, cache, upstream: a name in the pre-compiled table is
\* answered from it with the cache untouched (no counter, no entry) and
\* resolve not invoked; a name found in the cache is answered without
\* resolve; resolve is invoked only for a name that is not in the table and
\* that cache.get, called in this query, has missed.
C10_TableCacheUpstream ==
    \A data \in Datagrams, oob \in OobBytes, up \in UpstreamResults, dt \in Skews :
        WellFormedA(data, oob) =>
            LET domain == tolower(parse_dns_question(data, 12, oob).qname)
                r == handle_query(Server, data, oob, up, now, now + dt)
                g == FastDNSCache_get(Cache, domain, now, now + dt)
                i == get_shard_index(domain)
            IN  /\ domain \in DOMAIN responses =>
                      /\ r.cache = Cache
                      /\ r.resolved = resolved
                      /\ r.local_domain_hits = local_domain_hits + 1
                      /\ r.cache_hits = cache_hits
                /\ (domain \notin DOMAIN responses /\ g.found) =>
                      /\ r.resolved = resolved
                      /\ r.cache = g.cache
                      /\ r.cache_hits = cache_hits + 1
                      /\ r.local_domain_hits = local_domain_hits
                /\ r.resolved # resolved =>
                      /\ r.resolved = Append(resolved, domain)
                      /\ domain \notin DOMAIN responses
                      /\ ~g.found
                      /\ r.cache.get_calls[i] = get_calls[i] + 1
                      /\ r.cache.shards[i].misses = shards[i].misses + 1

\* queries have been answered from the table, from the cache and by upstream
C10_Witness ==
    /\ local_domain_hits > 0
    /\ cache_hits > 0
    /\ resolved # <<>>
    /\ Len(resolved) + cache_hits + local_domain_hits = total_queries

\* a worker is in its receive loop
Serving == running /\ worker = "recv"

\* a datagram that parses to one question
OneQuestion(data, oob) ==
    /\ parse_dns_header(data).ok
    /\ parse_dns_header(data).qdcount = 1
    /\ parse_dns_question(data, 12, oob).status = "ok"

\* the 12 octets of an error reply to the query data with the given rcode:
\* the id of the query, flags 0x8180 | rcode, four zero counts
ErrorReplyTo(data, rcode) ==
    <<data[1], data[2], 129, 128 + rcode, 0, 0, 0, 0, 0, 0, 0, 0>>

\* C11: a parsed single-question query whose qtype is not 1 or whose qclass
\* is not 1 gets exactly one reply, the 12 octets with RCODE 4 (flags 0x8184)
\* and zero counts, and touches neither the pre-compiled table's counter, the
\* cache nor upstream.
C11_NotImpForOtherTypeOrClass ==
    \A data \in Datagrams, oob \in OobBytes, up \in UpstreamResults, dt \in Skews :
        LET q == parse_dns_question(data, 12, oob)
            r == handle_query(Server, data, oob, up, now, now + dt)
        IN  (Serving /\ OneQuestion(data, oob) /\ (q.qtype # 1 \/ q.qclass # 1)) =>
              /\ r.sent = <<ErrorReplyTo(data, 4)>>
              /\ r.cache = Cache
              /\ r.resolved = resolved
              /\ r.local_domain_hits = local_domain_hits
              /\ r.cache_hits = cache_hits
              /\ r.response_times = response_times

\* the uncompressed name that starts at offset runs over the end of data
RECURSIVE NameOverruns(_, _)
NameOverruns(data, offset) ==
    IF offset >= Len(data) THEN TRUE
    ELSE IF data[offset + 1] = 0 \/ data[offset + 1] >= 192 THEN FALSE
    ELSE IF offset + 1 + data[offset + 1] > Len(data) THEN TRUE
    ELSE NameOverruns(data, offset + 1 + data[offset + 1])

\* a datagram shorter than a header, or with qdcount # 1, or whose question
\* name is empty or overruns the datagram
Malformed(data) ==
    \/ Len(data) < 12
    \/ data[5] * 256 + data[6] # 1
    \/ NameOverruns(data, 12)
    \/ data[13] = 0

\* C12: a datagram shorter than 12 octets, one whose qdcount is not 1 and one
\* whose question name is empty or overruns the buffer get no reply and leave
\* the cache, the reservoir, cache_hits and local_domain_hits as they are.
C12_MalformedDropped ==
    \A data \in Datagrams, oob \in OobBytes, up \in UpstreamResults, dt \in Skews :
        LET r == handle_query(Server, data, oob, up, now, now + dt)
        IN  (Serving /\ Malformed(data)) =>
              /\ r.sent = <<>>
              /\ r.cache = Cache
              /\ r.response_times = response_times
              /\ r.cache_hits = cache_hits
              /\ r.local_domain_hits = local_domain_hits
              /\ r.resolved = resolved
              /\ r.worker = "recv"
              /\ r.total_queries = total_queries + 1

\* a datagram was dropped after an earlier query had been resolved and cached
C12_Witness ==
    /\ Serving
    /\ total_queries = 2
    /\ sent = <<>>
    /\ Len(resolved) = 1
    /\ Len(response_times) = 1
    /\ \E d \in DOMAIN installed : d = resolved[1]

\* the name of a well-formed A query is neither in the pre-compiled table nor
\* in the cache when the query is handled with clock readings t1, t2
MissesBoth(data, oob, t1, t2) ==
    LET domain == tolower(parse_dns_question(data, 12, oob).qname)
    IN  /\ WellFormedA(data, oob)
        /\ domain \notin DOMAIN responses
        /\ ~FastDNSCache_get(Cache, domain, t1, t2).found

\* C13: when upstream fails for a query that missed the table and the cache,
\* exactly one reply is sent, the 12 octets with RCODE 2, and nothing is
\* installed in the cache for the name; the same query handled next misses
\* the cache again and goes to upstream again.
C13_ServfailNotCached ==
    \A data \in Datagrams, oob \in OobBytes, up2 \in UpstreamResults, dt \in Skews :
        (Serving /\ MissesBoth(data, oob, now, now + dt)) =>
            LET domain == tolower(parse_dns_question(data, 12, oob).qname)
                i == get_shard_index(domain)
                r == handle_query(Server, data, oob, [ok |-> FALSE, ip |-> <<>>],
                                  now, now + dt)
                r2 == handle_query(r, data, oob, up2, now + dt, now + dt)
            IN  /\ r.sent = <<ErrorReplyTo(data, 2)>>
                /\ r.resolved = Append(resolved, domain)
                /\ r.cache = FastDNSCache_get(Cache, domain, now, now + dt).cache
                /\ domain \notin DOMAIN r.cache.shards[i].entries
                /\ r2.resolved = Append(r.resolved, domain)
                /\ r2.cache_hits = cache_hits
                /\ r2.cache.shards[i].misses = shards[i].misses + 2

\* upstream has failed twice in a row for the same name: SERVFAIL was sent
\* and the cache is empty
C13_Witness ==
    /\ Serving
    /\ total_queries = 2
    /\ Len(resolved) = 2
    /\ resolved[1] = resolved[2]
    /\ Len(sent) = 1
    /\ Len(sent[1]) = 12
    /\ sent[1][4] = 130
    /\ installed = <<>>

\* C14: with an upstream that succeeds, the first of two successive queries
\* for a name that is neither local nor cached calls upstream and installs its
\* answer with a ttl of 300; the second, handled while that ttl runs, is
\* answered from the cache without upstream; total_queries grows by 2,
\* cache_hits by 1, local_domain_hits by 0.
C14_SecondQueryFromCache ==
    \A data \in Datagrams, oob \in OobBytes, up \in UpstreamResults, dt \in Skews :
        (Serving /\ up.ok /\ MissesBoth(data, oob, now, now + dt)) =>
            LET domain == tolower(parse_dns_question(data, 12, oob).qname)
                i == get_shard_index(domain)
                down == [ok |-> FALSE, ip |-> <<>>]
                r == handle_query(Server, data, oob, up, now, now + dt)
                installs == now + dt
                r2 == handle_query(r, data, oob, down, installs, installs + dt)
                last == handle_query(r, data, oob, down, installs + UpstreamTTL - 1,
                                     installs + UpstreamTTL - 1)
            IN  /\ r.resolved = Append(resolved, domain)
                /\ r.cache_hits = cache_hits
                /\ Len(r.sent) = 1
                /\ domain \in DOMAIN r.cache.shards[i].entries
                /\ r.cache.shards[i].entries[domain].ip = up.ip
                /\ r.cache.shards[i].entries[domain].expiry = installs + 300
                /\ r2.resolved = r.resolved
                /\ r2.sent = r.sent
                /\ r2.total_queries = total_queries + 2
                /\ r2.cache_hits = cache_hits + 1
                /\ r2.local_domain_hits = local_domain_hits
                /\ last.resolved = r.resolved
                /\ last.sent = r.sent
                /\ last.cache_hits = cache_hits + 1

\* two queries for one name: the first went to upstream, the second was
\* answered from the cache
C14_Witness ==
    /\ Serving
    /\ total_queries = 2
    /\ Len(resolved) = 1
    /\ cache_hits = 1
    /\ local_domain_hits = 0
    /\ Len(sent) = 1
    /\ Len(sent[1]) > 12
    /\ resolved[1] \in DOMAIN installed

\* the octets of the question name of a query with an uncompressed name,
\* its closing zero octet included
WireName(data, oob) == SubSeq(data, 13, parse_dns_question(data, 12, oob).offset - 4)

\* C19: two queries whose names differ only in letter case are looked up
\* alike (same table entry, same cache entry, same counters), and every
\* answer, from the table, the cache or upstream, carries in its question
\* section the name as the query spelled it.
C19_CaseInsensitivePreserving ==
    \A data \in Datagrams, oob \in OobBytes, up \in UpstreamResults, dt \in Skews :
        (Serving /\ WellFormedA(data, oob) /\ data[13] < 192) =>
            LET q == parse_dns_question(data, 12, oob)
                r == handle_query(Server, data, oob, up, now, now + dt)
            IN  /\ \A other \in Datagrams :
                      (/\ WellFormedA(other, oob)
                       /\ other[13] < 192
                       /\ tolower(parse_dns_question(other, 12, oob).qname) = tolower(q.qname))
                      => LET o == handle_query(Server, other, oob, up, now, now + dt)
                         IN  /\ o.cache = r.cache
                             /\ o.resolved = r.resolved
                             /\ o.cache_hits = r.cache_hits
                             /\ o.local_domain_hits = r.local_domain_hits
                             /\ Len(o.sent) = Len(r.sent)
                /\ \A i \in 1 .. Len(r.sent) :
                      Len(r.sent[i]) > 12 =>
                          SubSeq(r.sent[i], 13, 12 + Len(WireName(data, oob)))
                              = WireName(data, oob)

-----------------------------------------------------------------------------
(* the packet builders and the name codec, applied to inputs one at a time *)

\* the decimal digits of a number
RECURSIVE Decimal(_)
Decimal(n) == IF n < 10 THEN <<48 + n>> ELSE Decimal(n \div 10) \o <<48 + (n % 10)>>

\* inet_ntop(AF_INET, .): four octets in dotted decimal
inet_ntop(addr) ==
    Decimal(addr[1]) \o <<46>> \o Decimal(addr[2]) \o <<46>> \o Decimal(addr[3])
        \o <<46>> \o Decimal(addr[4])

\* labels joined by dots
RECURSIVE JoinDots(_)
JoinDots(labels) ==
    IF labels = <<>> THEN <<>>
    ELSE IF Len(labels) = 1 THEN labels[1]
    ELSE labels[1] \o <<46>> \o JoinDots(Tail(labels))

QueryIds == {<<0, 0>>, <<18, 52>>, <<171, 205>>}

\* names as lists of labels: a, a.b, Ab.c, www.a.com
LabelLists ==
    {<<<<97>>>>,
     <<<<97>>, <<98>>>>,
     <<<<65, 98>>, <<99>>>>,
     <<<<119, 119, 119>>, <<97>>, <<99, 111, 109>>>>}

Addresses ==
    {<<1, 2, 3, 4>>, <<192, 168, 1, 1>>, <<255, 255, 255, 255>>, <<0, 0, 0, 0>>,
     <<127, 0, 0, 1>>, <<10, 0, 0, 8>>, <<203, 0, 113, 5>>}

\* strings registered as names: the names above, "", "a.", "a..b", ".a"
RawDomains ==
    {JoinDots(l) : l \in LabelLists}
        \cup {<<>>, <<97, 46>>, <<97, 46, 46, 98>>, <<46, 97>>}

\* strings registered as addresses: the addresses above, "x", "", "1.2.3",
\* "1.2.3.4.5", "1.2.3.", "256.1.1.1", "010.1.1.1", "0x7f.1"
RawIPs ==
    {inet_ntop(a) : a \in Addresses}
        \cup {<<120>>, <<>>, <<49, 46, 50, 46, 51>>,
              <<49, 46, 50, 46, 51, 46, 52, 46, 53>>,
              <<49, 46, 50, 46, 51, 46>>,
              <<50, 53, 54, 46, 49, 46, 49, 46, 49>>,
              <<48, 49, 48, 46, 49, 46, 49, 46, 49>>,
              <<48, 120, 55, 102, 46, 49>>}

\* the rcodes the dispatcher uses
Rcodes == {2, 4}

\* the octets of labels
LabelOctets == {97, 46, 0, 255}

WireLabels ==
    {<<1, a>> : a \in LabelOctets} \cup {<<2, a, b>> : a \in LabelOctets, b \in LabelOctets}

\* uncompressed names on the wire: one or two labels and the closing zero
WireNames ==
    {l \o <<0>> : l \in WireLabels} \cup {l \o m \o <<0>> : l \in WireLabels, m \in WireLabels}

\* labels in front of a compression pointer: none, or "a"
PointerPrefixes == {<<>>, <<1, 97>>}

\* where the pointer points: every offset of the datagram and one behind it
PointerTargets == (0 .. 25) \cup {200}

\* what follows the question, at offset tb: "l"; a pointer to "l" two octets on;
\* a label that runs over the end; the root; "l" and a pointer back to tb
PointerTails(tb) ==
    {<<1, 108, 0>>, <<192, tb + 2, 1, 108, 0>>, <<5, 108>>, <<0>>, <<1, 108, 192, tb>>}

\* questions whose name ends in a compression pointer
PointerCalls ==
    {[fn |-> "parse_dns_question", pre |-> pre, target |-> t, qtype |-> qt, qclass |-> 1,
      after |-> 12 + Len(pre) + 2, oob |-> oob,
      data |-> Query(1, pre \o <<192, t>>, qt, 1) \o tail] :
        pre \in PointerPrefixes, t \in PointerTargets, qt \in {1, 28}, oob \in OobBytes,
        tail \in UNION {PointerTails(12 + Len(p) + 6) : p \in PointerPrefixes}}

CodecCalls ==
    {[fn |-> "build_dns_response", query_id |-> id, labels |-> l, addr |-> a,
      domain |-> JoinDots(l), ip |-> inet_ntop(a)] :
        id \in QueryIds, l \in LabelLists, a \in Addresses}
    \cup {[fn |-> "build_error_response", query_id |-> id, rcode |-> rc] :
            id \in QueryIds, rc \in Rcodes}
    \cup {[fn |-> "add_local_domain", domain |-> d, ip |-> ip] :
            d \in RawDomains, ip \in RawIPs}
    \cup {[fn |-> "parse_domain_name", data |-> n] : n \in WireNames}
    \cup PointerCalls

InitCodec ==
    /\ InitProgram
    /\ call \in CodecCalls
    /\ outcome = Pending
    /\ lookups = NoLookups
    /\ InitLocks

BuildDnsResponse ==
    /\ call.fn = "build_dns_response"
    /\ ~outcome.done
    /\ outcome' = Returned(build_dns_response(call.query_id, call.domain, call.ip))
    /\ UNCHANGED <<cacheVars, testVars, serverVars, call, lookups, lockVars>>

BuildErrorResponse ==
    /\ call.fn = "build_error_response"
    /\ ~outcome.done
    /\ outcome' = Returned(build_error_response(call.query_id, call.rcode))
    /\ UNCHANGED <<cacheVars, testVars, serverVars, call, lookups, lockVars>>

StoreLocalDomain ==
    /\ call.fn = "add_local_domain"
    /\ ~outcome.done
    /\ outcome' = Returned(add_local_domain(call.domain, call.ip))
    /\ UNCHANGED <<cacheVars, testVars, serverVars, call, lookups, lockVars>>

ParseDomainName ==
    /\ call.fn = "parse_domain_name"
    /\ ~outcome.done
    /\ outcome' = Returned(parse_domain_name(call.data, 0, 0))
    /\ UNCHANGED <<cacheVars, testVars, serverVars, call, lookups, lockVars>>

\* parse_dns_question on a datagram, from offset 12 as handle_query calls it;
\* the cursor parse_domain_name leaves behind is kept with the result
ParseDnsQuestion ==
    /\ call.fn = "parse_dns_question"
    /\ ~outcome.done
    /\ outcome' = Returned([name |-> parse_domain_name(call.data, 12, call.oob),
                            question |-> parse_dns_question(call.data, 12, call.oob)])
    /\ UNCHANGED <<cacheVars, testVars, serverVars, call, lookups, lockVars>>

\* the name that was parsed is encoded again
EncodeDomainName ==
    /\ call.fn = "parse_domain_name"
    /\ outcome.done
    /\ outcome.value.status = "ok"
    /\ call' = [fn |-> "encode_domain_name", data |-> call.data,
                domain |-> outcome.value.name]
    /\ outcome' = Returned(encode_domain_name(outcome.value.name))
    /\ UNCHANGED <<cacheVars, testVars, serverVars, lookups, lockVars>>

NextCodec ==
    \/ BuildDnsResponse
    \/ BuildErrorResponse
    \/ StoreLocalDomain
    \/ ParseDomainName
    \/ ParseDnsQuestion
    \/ EncodeDomainName

SpecCodec == InitCodec /\ [][NextCodec]_vars

\* C15: the packet add_local_domain stores for a name and an address is, octet
\* for octet, the packet build_dns_response builds for id 0 and the same name
\* and address, on every input, valid or not
C15_StoredEqualsBuilt ==
    (call.fn = "add_local_domain" /\ outcome.done)
        => outcome.value = build_dns_response(<<0, 0>>, call.domain, call.ip)

\* a packet was stored for a name of several labels and a valid address
C15_Witness ==
    /\ call.fn = "add_local_domain"
    /\ outcome.done
    /\ inet_aton(call.ip).ok
    /\ Len(getlines(call.domain)) >= 2
    /\ Len(outcome.value) > 12

\* the labels of a name, each behind its length octet
RECURSIVE LengthPrefixed(_)
LengthPrefixed(labels) ==
    IF labels = <<>> THEN <<>>
    ELSE <<Len(labels[1])>> \o labels[1] \o LengthPrefixed(Tail(labels))

\* C17: an answer built for a name and a dotted-quad address is the echoed id,
\* flags 0x8180, qdcount 1, ancount 1, nscount 0, arcount 0, the name as
\* length-prefixed labels with a closing zero, qtype 1, qclass 1, then one answer:
\* pointer 0xC00C, type 1, class 1, TTL 300, rdlength 4 and the four octets of
\* the address in network order
C17_AnswerLayout ==
    (call.fn = "build_dns_response" /\ outcome.done)
        => outcome.value =
               call.query_id \o <<129, 128, 0, 1, 0, 1, 0, 0, 0, 0>>
                   \o LengthPrefixed(call.labels) \o <<0>>
                   \o <<0, 1, 0, 1>>
                   \o <<192, 12>>
                   \o <<0, 1, 0, 1, 0, 0, 1, 44, 0, 4>>
                   \o call.addr

\* an answer was built for a name of several labels and a nonzero id
C17_Witness ==
    /\ call.fn = "build_dns_response"
    /\ outcome.done
    /\ Len(call.labels) >= 2
    /\ call.query_id # <<0, 0>>
    /\ call.addr[1] # call.addr[4]

\* C18: an error reply is exactly 12 octets: the echoed id, flags 0x8180 with
\* the rcode in the low four bits, and four zero counts
C18_ErrorLayout ==
    (call.fn = "build_error_response" /\ outcome.done)
        => /\ Len(outcome.value) = 12
           /\ outcome.value =
                  call.query_id \o <<129, 128 + call.rcode, 0, 0, 0, 0, 0, 0, 0, 0>>

\* an error reply was built for a nonzero id
C18_Witness ==
    /\ call.fn = "build_error_response"
    /\ outcome.done
    /\ call.query_id # <<0, 0>>
    /\ call.rcode = 4

\* C20: parsing an uncompressed name of labels of arbitrary octets and encoding
\* the result gives back the octets that were parsed
C20_RoundTrip ==
    (call.fn = "encode_domain_name" /\ outcome.done)
        => outcome.value = call.data

-----------------------------------------------------------------------------
(* PrecompiledResponses::get_response, statement by statement, called by
   several worker threads on a table that was filled before start *)

\* the registrations made before start: "l" and "r.l"
Registered ==
    (<<108>> :> add_local_domain(<<108>>, inet_ntop(<<1, 2, 3, 4>>)))
        @@ (<<114, 46, 108>> :> add_local_domain(<<114, 46, 108>>, inet_ntop(<<192, 168, 1, 1>>)))

\* the lowercased names the workers look up: "l", "r.l" and "a"
LookupDomains == {<<108>>, <<114, 46, 108>>, <<97>>}

\* the ids of the queries
LookupIds == {<<18, 52>>, <<171, 205>>}

\* auto it = responses.find(domain)
find_response(table, domain) == domain \in DOMAIN table

\* a faulty variant: the stored packet is moved out of the table, not copied
move_response(table, domain) ==
    [table |-> [table EXCEPT ![domain] = <<>>], response |-> table[domain]]

\* response = it->second: the stored packet is copied into the caller's vector
copy_response(table, domain) ==
    [table |-> table, response |-> table[domain]]

\* *reinterpret_cast<uint16_t*>(response.data()) = query_id
patch_id(response, query_id) == query_id \o SubSeq(response, 3, Len(response))

InitLookup ==
    /\ shards = [i \in ShardIds |-> EmptyShard]
    /\ now = 0
    /\ get_calls = [i \in ShardIds |-> 0]
    /\ installed = <<>>
    /\ test = [pc |-> "prior", fill |-> 0, res |-> <<>>]
    /\ running = TRUE
    /\ responses = Registered
    /\ total_queries = 0
    /\ cache_hits = 0
    /\ local_domain_hits = 0
    /\ response_times = <<>>
    /\ sent = <<>>
    /\ resolved = <<>>
    /\ worker = "recv"
    /\ call = NoCall
    /\ outcome = Pending
    /\ lookups = NoLookups
    /\ InitLocks

\* handle_query calls precompiled.get_response(domain, header.id, response)
\* with an empty vector
LookupCall(th, domain, query_id) ==
    /\ lookups[th].pc = "idle"
    /\ lookups' = [lookups EXCEPT ![th] =
                       [pc |-> "find", domain |-> domain, query_id |-> query_id,
                        response |-> <<>>, found |-> FALSE]]
    /\ UNCHANGED <<cacheVars, testVars, serverVars, call, outcome, lockVars>>

LookupFind(th) ==
    /\ lookups[th].pc = "find"
    /\ lookups' = [lookups EXCEPT ![th].pc =
                       IF find_response(responses, lookups[th].domain)
                       THEN "copy" ELSE "done"]
    /\ UNCHANGED <<cacheVars, testVars, serverVars, call, outcome, lockVars>>

LookupCopy(th) ==
    LET c == copy_response(responses, lookups[th].domain)
    IN  /\ lookups[th].pc = "copy"
        /\ responses' = c.table
        /\ lookups' = [lookups EXCEPT ![th].pc = "patch", ![th].response = c.response]
        /\ UNCHANGED <<cacheVars, testVars, running, total_queries, cache_hits,
                       local_domain_hits, response_times, sent, resolved, worker,
                       call, outcome, lockVars>>

LookupPatch(th) ==
    /\ lookups[th].pc = "patch"
    /\ lookups' = [lookups EXCEPT
                       ![th].pc = "done",
                       ![th].found = TRUE,
                       ![th].response = patch_id(lookups[th].response, lookups[th].query_id)]
    /\ UNCHANGED <<cacheVars, testVars, serverVars, call, outcome, lockVars>>

\* the caller has used the result; its vector goes out of scope
LookupReturn(th) ==
    /\ lookups[th].pc = "done"
    /\ lookups' = [lookups EXCEPT ![th] = IdleLookup]
    /\ UNCHANGED <<cacheVars, testVars, serverVars, call, outcome, lockVars>>

NextLookup ==
    \/ \E th \in Threads, d \in LookupDomains, id \in LookupIds : LookupCall(th, d, id)
    \/ \E th \in Threads : LookupFind(th)
    \/ \E th \in Threads : LookupCopy(th)
    \/ \E th \in Threads : LookupPatch(th)
    \/ \E th \in Threads : LookupReturn(th)

SpecLookup == InitLookup /\ [][NextLookup]_vars

\* C16: a lookup that hits hands its caller a packet of the stored length whose
\* octets 0-1 are the caller's id as it came off the wire and whose other octets
\* are the stored ones; it is the packet get_response computes in one step; a
\* lookup that misses reports so and hands out nothing; no lookup changes the
\* table, and at no point does a caller's vector hold the id of another lookup
C16_LookupPatchesCopyOnly ==
    /\ responses = Registered
    /\ \A th \in Threads :
           LET l == lookups[th]
           IN  /\ (l.pc = "done" /\ l.found)
                      => /\ l.domain \in DOMAIN Registered
                         /\ Len(l.response) = Len(Registered[l.domain])
                         /\ <<l.response[1], l.response[2]>> = l.query_id
                         /\ \A i \in 3 .. Len(l.response) :
                                l.response[i] = Registered[l.domain][i]
                         /\ get_response(responses, l.domain, l.query_id)
                                = [found |-> TRUE, response |-> l.response]
               /\ (l.pc = "done" /\ ~l.found)
                      => /\ l.domain \notin DOMAIN Registered
                         /\ l.response = <<>>
                         /\ ~get_response(responses, l.domain, l.query_id).found
               /\ l.response # <<>>
                      => <<l.response[1], l.response[2]>> \in {<<0, 0>>, l.query_id}

\* two lookups of the same name with different ids have both returned a hit; one
\* of them is the query with id 0x1234 for the name registered with 192.168.1.1
C16_Witness ==
    /\ lookups[1].pc = "done" /\ lookups[1].found
    /\ lookups[2].pc = "done" /\ lookups[2].found
    /\ lookups[1].domain = lookups[2].domain
    /\ lookups[1].query_id = <<18, 52>>
    /\ lookups[2].query_id # lookups[1].query_id
    /\ SubSeq(lookups[1].response, 1, 4) = <<18, 52, 129, 128>>
    /\ SubSeq(lookups[1].response, Len(lookups[1].response) - 3, Len(lookups[1].response))
           = <<192, 168, 1, 1>>

-----------------------------------------------------------------------------
(* the dispatcher: counters and the response-time reservoir *)

\* C30: total_queries, cache_hits and local_domain_hits never decrease; every
\* datagram handed to handle_query, whatever becomes of it, adds exactly 1 to
\* total_queries and at most 1 to cache_hits and local_domain_hits together; in
\* every state cache_hits + local_domain_hits <= total_queries
C30_CountersMonotonic ==
    /\ [](/\ cache_hits + local_domain_hits <= total_queries
          /\ Serving =>
                \A data \in Datagrams, oob \in OobBytes, up \in UpstreamResults, dt \in Skews :
                    LET r == handle_query(Server, data, oob, up, now, now + dt)
                    IN  /\ r.total_queries = total_queries + 1
                        /\ r.cache_hits >= cache_hits
                        /\ r.local_domain_hits >= local_domain_hits
                        /\ (r.cache_hits - cache_hits)
                               + (r.local_domain_hits - local_domain_hits) <= 1)
    /\ [][/\ total_queries' >= total_queries
          /\ cache_hits' >= cache_hits
          /\ local_domain_hits' >= local_domain_hits
          /\ sent' # sent => total_queries' = total_queries + 1]_vars

\* three queries were counted: one answered by upstream, one from the cache, one
\* from the pre-compiled table
C30_Witness ==
    /\ total_queries = 3
    /\ cache_hits = 1
    /\ local_domain_hits = 1

\* the reservoir after one more sample
Sampled(times, sample) ==
    IF Len(times) < MAX_RESPONSE_TIMES THEN Append(times, sample)
    ELSE SubSeq(Append(times, sample), (MAX_RESPONSE_TIMES \div 2) + 1, Len(times) + 1)

\* C28: a query answered from the pre-compiled table leaves the reservoir as it
\* is and adds 1 to local_domain_hits and 0 to cache_hits; a query answered from
\* the cache or through upstream, with an answer or with SERVFAIL, appends
\* exactly one sample; a dropped query and a NOTIMP reply append none
C28_LocalHitsNotSampled ==
    Serving =>
        \A data \in Datagrams, oob \in OobBytes, up \in UpstreamResults, dt \in Skews :
            LET r == handle_query(Server, data, oob, up, now, now + dt)
                q == parse_dns_question(data, 12, oob)
            IN  IF OneQuestion(data, oob) /\ q.qtype = 1
                THEN IF tolower(q.qname) \in DOMAIN responses
                     THEN /\ r.response_times = response_times
                          /\ r.local_domain_hits = local_domain_hits + 1
                          /\ r.cache_hits = cache_hits
                          /\ Len(r.sent) = 1
                     ELSE /\ r.response_times = Sampled(response_times, dt)
                          /\ r.local_domain_hits = local_domain_hits
                          /\ Len(r.sent) = 1
                ELSE /\ r.response_times = response_times
                     /\ r.local_domain_hits = local_domain_hits
                     /\ r.cache_hits = cache_hits
                     /\ r.sent \in {<<>>, <<ErrorReplyTo(data, 4)>>}

\* a query was answered from the pre-compiled table after two others had been
\* answered by upstream and from the cache: two samples for three queries
C28_Witness ==
    /\ total_queries = 3
    /\ local_domain_hits = 1
    /\ cache_hits = 1
    /\ Len(response_times) = 2
    /\ Len(sent) = 1
    /\ sent[1] \in {responses[d] : d \in DOMAIN responses}
                    \cup {QueryId \o SubSeq(responses[d], 3, Len(responses[d])) :
                             d \in DOMAIN responses}

-----------------------------------------------------------------------------
(* the question parser *)

\* C27 as stated: whenever parse_domain_name has followed a compression pointer
\* and returns, the cursor it leaves behind is the octet after the first pointer
C27_CursorAfterFirstPointer ==
    (call.fn = "parse_dns_question" /\ outcome.done /\ outcome.value.name.status # "hang")
        => outcome.value.name.offset = call.after

\* C27: whenever parse_domain_name has followed one or more compression
\* pointers and returns a name, the cursor it leaves behind is the octet after
\* the first pointer, so a question that is accepted has its qtype and qclass
\* read from directly after that pointer; when the cursor is left anywhere else
\* the name is empty and the question is rejected
C27_CursorAfterFirstPointerOfName ==
    (call.fn = "parse_dns_question" /\ outcome.done /\ outcome.value.name.status # "hang")
        => /\ outcome.value.name.name # <<>> => outcome.value.name.offset = call.after
           /\ outcome.value.question.status = "ok"
                  => /\ outcome.value.question.qtype = call.qtype
                     /\ outcome.value.question.qclass = call.qclass
                     /\ outcome.value.question.offset = call.after + 4
           /\ outcome.value.name.offset # call.after
                  => /\ outcome.value.name.name = <<>>
                     /\ outcome.value.question.status = "fail"

\* a question was accepted whose name is a label, a pointer behind the question
\* and there a second pointer to the last label
C27_Witness ==
    /\ call.fn = "parse_dns_question"
    /\ outcome.done
    /\ outcome.value.question.status = "ok"
    /\ call.pre # <<>>
    /\ call.target = call.after + 4
    /\ call.data[call.target + 1] = 192
    /\ outcome.value.question.qname = <<97, 46, 108>>
    /\ outcome.value.question.qtype = 28

\* a query of type A and class IN for a name of one label of n octets "a"
LabelQuery(n) == Query(1, <<n>> \o [i \in 1 .. n |-> 97] \o <<0>>, 1, 1)

\* length octets above 63 with the top two bits not both set: the two least
LongLabelLengths == {64, 65}

\* C26: a question name with a label length octet of 64..191 is a parse
\* failure: the query gets no reply and its name is neither looked up in the
\* cache nor passed to upstream
C26_LongLabelDropped ==
    Serving =>
        \A n \in LongLabelLengths, oob \in OobBytes, up \in UpstreamResults, dt \in Skews :
            LET r == handle_query(Server, LabelQuery(n), oob, up, now, now + dt)
            IN  /\ r.sent = <<>>
                /\ r.cache = Cache
                /\ r.resolved = resolved

-----------------------------------------------------------------------------
(* the cache: the global sweep and overfilling one shard *)

\* C24: cleanup_expired removes from every shard exactly the entries whose
\* expiry is at or before the time its sweep of that shard reads, from entries,
\* lru_map and lru_list together; every other entry keeps its ip, expiry and hit
\* count; the survivors keep their relative LRU order; hits, misses and
\* evictions do not change
C24_SweepRemovesExactlyExpired ==
    \A ts \in SweepTimes(now) :
        LET r == FastDNSCache_cleanup_expired(Cache, ts)
        IN  \A s \in ShardIds :
                LET old == shards[s]
                    new == r.shards[s]
                    gone == {k \in DOMAIN old.entries : old.entries[k].expiry <= ts[s]}
                    kept == (DOMAIN old.entries) \ gone
                IN  /\ DOMAIN new.entries = kept
                    /\ DOMAIN new.lru_map = kept
                    /\ ListSet(new.lru_list) = kept
                    /\ \A k \in kept : new.entries[k] = old.entries[k]
                    /\ new.lru_list = SelectSeq(old.lru_list, LAMBDA k : k \in kept)
                    /\ \A k \in kept : new.lru_list[new.lru_map[k]] = k
                    /\ new.hits = old.hits
                    /\ new.misses = old.misses
                    /\ new.evictions = old.evictions

\* a shard holds an entry that expires at this very instant in front of two
\* entries that have not expired
C24_Witness ==
    \E s \in ShardIds :
        /\ Cardinality(Live(shards[s], now)) >= 2
        /\ \E k \in DOMAIN shards[s].entries :
               /\ shards[s].entries[k].expiry = now
               /\ shards[s].lru_map[k] < Len(shards[s].lru_list)

(* test_ttl_lru_hybrid, "LRU eviction when cache is full" (test_cache.cpp), on
   a new cache, with every key forced into one shard and any number of keys *)

\* "test<i>.com"
test_domain(i) == TestKeys[1 + i]

InitFill ==
    /\ shards = [s \in ShardIds |-> EmptyShard]
    /\ now = 0
    /\ get_calls = [s \in ShardIds |-> 0]
    /\ installed = <<>>
    /\ test = [pc |-> "fill1", fill |-> 0, res |-> <<>>]
    /\ running = FALSE
    /\ responses = <<>>
    /\ total_queries = 0
    /\ cache_hits = 0
    /\ local_domain_hits = 0
    /\ response_times = <<>>
    /\ sent = <<>>
    /\ resolved = <<>>
    /\ worker = "recv"
    /\ call = NoCall
    /\ outcome = Pending
    /\ lookups = NoLookups
    /\ InitLocks

\* cache.set("test<i>.com", ., 300)
Test1Set(dt) ==
    /\ test.pc = "fill1"
    /\ test.fill < MaxFill
    /\ TestSet(test_domain(test.fill), TestTTL, dt)
    /\ test' = [test EXCEPT !.fill = @ + 1]

\* the loop ends: stats = cache.get_stats()
Test1Stats ==
    /\ test.pc = "fill1"
    /\ test.fill >= 1
    /\ test' = [test EXCEPT !.pc = "early", !.res = <<get_stats>>]
    /\ UNCHANGED <<cacheVars, serverVars, unitVars, lockVars>>

\* found_early = cache.get("test0.com", ip)
Test1GetEarly(dt) ==
    /\ test.pc = "early"
    /\ now + dt <= MaxTime
    /\ SetCache(FastDNSCache_get(Cache, test_domain(0), now, now + dt).cache)
    /\ now' = now + dt
    /\ test' = [test EXCEPT
                  !.pc = "late",
                  !.res = Append(@, FastDNSCache_get(Cache, test_domain(0), now,
                                                     now + dt).found)]
    /\ UNCHANGED <<serverVars, unitVars, lockVars>>

\* found_late = cache.get("test<last>.com", ip)
Test1GetLate(dt) ==
    /\ test.pc = "late"
    /\ now + dt <= MaxTime
    /\ SetCache(FastDNSCache_get(Cache, test_domain(test.fill - 1), now, now + dt).cache)
    /\ now' = now + dt
    /\ test' = [test EXCEPT
                  !.pc = "done1",
                  !.res = Append(@, FastDNSCache_get(Cache, test_domain(test.fill - 1), now,
                                                     now + dt).found)]
    /\ UNCHANGED <<serverVars, unitVars, lockVars>>

NextFill ==
    \/ Tick
    \/ \E dt \in Skews : Test1Set(dt)
    \/ Test1Stats
    \/ \E dt \in Skews : Test1GetEarly(dt)
    \/ \E dt \in Skews : Test1GetLate(dt)

SpecFill == InitFill /\ [][NextFill]_vars

\* C25: when n distinct unexpired keys have been set into one shard of a new
\* cache with no get in between, the shard holds the last
\* min(n, MAX_ENTRIES_PER_SHARD) of them, newest first, and has counted
\* max(0, n - MAX_ENTRIES_PER_SHARD) evictions: the keys leave in the order they
\* came; with n > MAX_ENTRIES_PER_SHARD the statistics then show
\* MAX_ENTRIES_PER_SHARD entries and n - MAX_ENTRIES_PER_SHARD evictions, the
\* first key misses and the last key hits
C25_EvictedInInsertionOrder ==
    LET n == test.fill
        held == IF n > MAX_ENTRIES_PER_SHARD THEN MAX_ENTRIES_PER_SHARD ELSE n
        sh == shards[get_shard_index(test_domain(0))]
    IN  /\ test.pc \in {"fill1", "early"}
              => /\ sh.lru_list = [i \in 1 .. held |-> test_domain(n - i)]
                 /\ DOMAIN sh.entries = {test_domain(i) : i \in (n - held) .. (n - 1)}
                 /\ \A i \in 0 .. (n - held - 1) : test_domain(i) \notin DOMAIN sh.entries
                 /\ sh.evictions = n - held
        /\ (test.pc = "done1" /\ n > MAX_ENTRIES_PER_SHARD)
              => /\ test.res[1].size = MAX_ENTRIES_PER_SHARD
                 /\ test.res[1].evictions = n - MAX_ENTRIES_PER_SHARD
                 /\ test.res[2] = FALSE
                 /\ test.res[3] = TRUE
                 /\ sh.evictions = n - MAX_ENTRIES_PER_SHARD

\* the test has ended after two keys more than a shard holds
C25_Witness ==
    /\ test.pc = "done1"
    /\ test.fill = MAX_ENTRIES_PER_SHARD + 2
    /\ test.res[1].evictions = 2
    /\ test.res[2] = FALSE
    /\ test.res[3] = TRUE

-----------------------------------------------------------------------------
(* several threads in the cache and in the reservoir, with their mutexes.
   A call is a sequence of steps; the steps of one critical section that other
   threads could tell apart are separate actions. *)

\* a faulty variant: the sums keep what the last shard holds
add_shard_overwriting(stats, sh) ==
    [hits |-> sh.hits,
     misses |-> sh.misses,
     evictions |-> sh.evictions,
     size |-> Cardinality(DOMAIN sh.entries)]

\* get_stats, the body of its loop: stats.hits += shard.hits.load(), and so on
add_shard(stats, sh) ==
    [hits |-> stats.hits + sh.hits,
     misses |-> stats.misses + sh.misses,
     evictions |-> stats.evictions + sh.evictions,
     size |-> stats.size + Cardinality(DOMAIN sh.entries)]

\* calls one thread makes, one after the other, at most (a query is one call:
\* its get, its set and its append are steps of it)
MaxOps == 1

\* a faulty variant: the lock is taken whether or not the mutex is free
can_lock_always(owner) == TRUE

\* lock_guard<mutex> lock(m): the constructor returns once m is free
can_lock(owner) == owner = Free

\* a faulty variant: a lock_guard on a shard is released only with the last shard
unlock_with_last(m, s) ==
    IF s = NUM_SHARDS - 1 THEN [m EXCEPT !.shard = [x \in ShardIds |-> Free]] ELSE m

\* the lock_guard on shard s goes out of scope
unlock(m, s) == [m EXCEPT !.shard[s] = Free]

\* a faulty variant: the last MAX_RESPONSE_TIMES / 2 samples are kept
erase_oldest_keep_half(times) ==
    IF Len(times) > MAX_RESPONSE_TIMES
    THEN SubSeq(times, Len(times) - (MAX_RESPONSE_TIMES \div 2) + 1, Len(times))
    ELSE times

\* if (response_times.size() > 10000) response_times.erase(begin, begin + 5000)
erase_oldest(times) ==
    IF Len(times) > MAX_RESPONSE_TIMES
    THEN SubSeq(times, (MAX_RESPONSE_TIMES \div 2) + 1, Len(times))
    ELSE times

\* set: the sweep, the eviction and the assignment of the entry
set_store(sh, domain, ip, ttl, t1, t2) ==
    LET s2 == evict_lru(cleanup_expired(sh, t1))
    IN  [s2 EXCEPT !.entries = MapPut(s2.entries, domain, CacheEntry(ip, ttl, t2))]

\* the names the threads ask for: "a" and "c" in the last shard, "b" in the
\* first
ThreadDomains == {<<97>>, <<98>>, <<99>>}

\* the set calls the threads make: "e" with a short ttl
ThreadSets == {[domain |-> <<101>>, ip |-> <<49>>, ttl |-> 1]}

\* the shard of "a" full: "c", "e", "g" set at time 0
FullCache ==
    FastDNSCache_set(
        FastDNSCache_set(
            FastDNSCache_set([shards |-> [s \in ShardIds |-> EmptyShard],
                              get_calls |-> [s \in ShardIds |-> 0],
                              installed |-> <<>>],
                             <<99>>, <<49>>, 1, 0, 0),
            <<101>>, <<49>>, 2, 0, 0),
        <<103>>, <<50>>, 2, 0, 0)

\* the cache when the threads start: new, or with one shard full; the
\* reservoir then is empty or holds MAX_RESPONSE_TIMES samples
ThreadCaches ==
    {[shards |-> [s \in ShardIds |-> EmptyShard], get_calls |-> [s \in ShardIds |-> 0],
      installed |-> <<>>],
     FullCache}

NoRet == [op |-> "none"]

InitThreads ==
    /\ \E c \in ThreadCaches :
          /\ shards = c.shards
          /\ get_calls = c.get_calls
          /\ installed = c.installed
    /\ now = 0
    /\ test = [pc |-> "prior", fill |-> 0, res |-> <<>>]
    /\ running = TRUE
    /\ responses = <<>>
    /\ total_queries = 0
    /\ cache_hits = 0
    /\ local_domain_hits = 0
    /\ arrivals \in {0, MAX_RESPONSE_TIMES}
    /\ response_times = [i \in 1 .. arrivals |-> i]
    /\ sent = <<>>
    /\ resolved = <<>>
    /\ worker = "recv"
    /\ call = NoCall
    /\ outcome = Pending
    /\ lookups = NoLookups
    /\ threads = [th \in Threads |-> [IdleThread EXCEPT !.ret = NoRet]]
    /\ mtx = [shard |-> [s \in ShardIds |-> Free], stats |-> Free]

ServerRest == <<running, responses, total_queries, cache_hits, local_domain_hits, sent,
                resolved, worker>>

\* a worker thread enters handle_query with a question for domain
BeginQuery(th, domain) ==
    /\ threads[th].pc = "idle"
    /\ threads[th].ops < MaxOps
    /\ threads' = [threads EXCEPT ![th].pc = "get_lock", ![th].prog = "query",
                                  ![th].ops = @ + 1, ![th].domain = domain]
    /\ UNCHANGED <<cacheVars, testVars, serverVars, unitVars, mtx, arrivals>>

\* a thread calls cache.set(domain, ip, ttl)
BeginSet(th, i) ==
    /\ threads[th].pc = "idle"
    /\ threads[th].ops < MaxOps
    /\ threads' = [threads EXCEPT ![th].pc = "set_lock", ![th].prog = "set",
                                  ![th].ops = @ + 1, ![th].domain = i.domain,
                                  ![th].ip = i.ip, ![th].ttl = i.ttl]
    /\ UNCHANGED <<cacheVars, testVars, serverVars, unitVars, mtx, arrivals>>

\* a thread calls cache.cleanup_expired()
BeginCleanup(th) ==
    /\ threads[th].pc = "idle"
    /\ threads[th].ops < MaxOps
    /\ threads' = [threads EXCEPT ![th].pc = "sweep_lock", ![th].prog = "cleanup",
                                  ![th].ops = @ + 1, ![th].shard = 0]
    /\ UNCHANGED <<cacheVars, testVars, serverVars, unitVars, mtx, arrivals>>

\* a thread calls cache.get_stats(): Stats stats
BeginStats(th) ==
    /\ threads[th].pc = "idle"
    /\ threads[th].ops < MaxOps
    /\ threads' = [threads EXCEPT
                      ![th].pc = "stats_lock", ![th].prog = "stats",
                      ![th].ops = @ + 1, ![th].shard = 0,
                      ![th].begin = [totals |-> stats_of(shards), shards |-> shards],
                      ![th].acc = [hits |-> 0, misses |-> 0, evictions |-> 0, size |-> 0,
                                   visited |-> <<>>, quiet |-> TRUE]]
    /\ UNCHANGED <<cacheVars, testVars, serverVars, unitVars, mtx, arrivals>>

\* a thread calls get_performance_stats()
BeginPerf(th) ==
    /\ threads[th].pc = "idle"
    /\ threads[th].ops < MaxOps
    /\ threads' = [threads EXCEPT ![th].pc = "perf_lock", ![th].prog = "perf",
                                  ![th].ops = @ + 1]
    /\ UNCHANGED <<cacheVars, testVars, serverVars, unitVars, mtx, arrivals>>

\* get, set: lock_guard<mutex> lock(shard.mtx)
LockShard(th) ==
    LET s == get_shard_index(threads[th].domain)
    IN  /\ threads[th].pc \in {"get_lock", "set_lock"}
        /\ can_lock(mtx.shard[s])
        /\ mtx' = [mtx EXCEPT !.shard[s] = th]
        /\ threads' = [threads EXCEPT
                          ![th].pc = IF threads[th].pc = "get_lock" THEN "get_body"
                                     ELSE "set_store",
                          ![th].shard = s,
                          ![th].snap = shards[s],
                          ![th].ret = NoRet]
        /\ UNCHANGED <<cacheVars, testVars, serverVars, unitVars, arrivals>>

\* get: the critical section and the return
GetBody(th) ==
    LET t == threads[th]
        r == FastDNSCache_get(Cache, t.domain, now, now)
    IN  /\ t.pc = "get_body"
        /\ SetCache(r.cache)
        /\ mtx' = unlock(mtx, t.shard)
        /\ threads' = [threads EXCEPT
                          ![th].pc = IF r.found THEN "append_lock" ELSE "upstream",
                          ![th].ret = [op |-> "get", before |-> t.snap,
                                       after |-> r.cache.shards[t.shard],
                                       found |-> r.found, ip |-> r.ip,
                                       t1 |-> now, t2 |-> now]]
        /\ UNCHANGED <<now, testVars, serverVars, unitVars, arrivals>>

\* handle_query after a miss: resolve_upstream(domain, resolved_ip)
Upstream(th, up) ==
    /\ threads[th].pc = "upstream"
    /\ threads' = [threads EXCEPT
                      ![th].pc = IF up.ok THEN "set_lock" ELSE "append_lock",
                      ![th].ip = up.ip,
                      ![th].ttl = UpstreamTTL,
                      ![th].ret = NoRet]
    /\ UNCHANGED <<cacheVars, testVars, serverVars, unitVars, mtx, arrivals>>

\* set: the sweep, evict_lru and entries[domain] = CacheEntry(ip, ttl)
SetStore(th) ==
    LET t == threads[th]
    IN  /\ t.pc = "set_store"
        /\ shards' = [shards EXCEPT
                         ![t.shard] = set_store(@, t.domain, t.ip, t.ttl, now, now)]
        /\ installed' = FastDNSCache_set(Cache, t.domain, t.ip, t.ttl, now, now).installed
        /\ threads' = [threads EXCEPT ![th].pc = "set_touch",
                                      ![th].acc = [t1 |-> now, t2 |-> now]]
        /\ UNCHANGED <<now, get_calls, testVars, serverVars, unitVars, mtx, arrivals>>

\* set: touch_lru(domain) and the return
SetTouch(th) ==
    LET t == threads[th]
        after == touch_lru(shards[t.shard], t.domain)
    IN  /\ t.pc = "set_touch"
        /\ shards' = [shards EXCEPT ![t.shard] = after]
        /\ mtx' = unlock(mtx, t.shard)
        /\ threads' = [threads EXCEPT
                          ![th].pc = IF t.prog = "query" THEN "append_lock" ELSE "ret",
                          ![th].ret = [op |-> "set", before |-> t.snap, after |-> after,
                                       t1 |-> t.acc.t1, t2 |-> t.acc.t2]]
        /\ UNCHANGED <<now, get_calls, installed, testVars, serverVars, unitVars, arrivals>>

\* handle_query: lock_guard<mutex> lock(stats_mutex)
AppendLock(th) ==
    /\ threads[th].pc = "append_lock"
    /\ can_lock(mtx.stats)
    /\ mtx' = [mtx EXCEPT !.stats = th]
    /\ threads' = [threads EXCEPT ![th].pc = "append_push", ![th].snap = response_times,
                                  ![th].ret = NoRet]
    /\ UNCHANGED <<cacheVars, testVars, serverVars, unitVars, arrivals>>

\* response_times.push_back(.); the sample is the number of its arrival
AppendPush(th) ==
    /\ threads[th].pc = "append_push"
    /\ response_times' = Append(response_times, arrivals + 1)
    /\ arrivals' = arrivals + 1
    /\ threads' = [threads EXCEPT ![th].pc = "append_trim"]
    /\ UNCHANGED <<cacheVars, testVars, ServerRest, unitVars, mtx>>

\* the trim, the end of the block and the return of handle_query
AppendTrim(th) ==
    /\ threads[th].pc = "append_trim"
    /\ response_times' = erase_oldest(response_times)
    /\ mtx' = [mtx EXCEPT !.stats = Free]
    /\ threads' = [threads EXCEPT
                      ![th].pc = "ret",
                      ![th].ret = [op |-> "append", before |-> threads[th].snap,
                                   after |-> erase_oldest(response_times),
                                   sample |-> arrivals]]
    /\ UNCHANGED <<cacheVars, testVars, ServerRest, unitVars, arrivals>>

\* cleanup_expired, get_stats: lock_guard<mutex> lock(shard.mtx) in the loop
LockNextShard(th) ==
    LET s == threads[th].shard
    IN  /\ threads[th].pc \in {"sweep_lock", "stats_lock"}
        /\ can_lock(mtx.shard[s])
        /\ mtx' = [mtx EXCEPT !.shard[s] = th]
        /\ threads' = [threads EXCEPT
                          ![th].pc = IF threads[th].pc = "sweep_lock" THEN "sweep_body"
                                     ELSE "stats_read",
                          ![th].snap = shards[s],
                          ![th].ret = NoRet]
        /\ UNCHANGED <<cacheVars, testVars, serverVars, unitVars, arrivals>>

\* cleanup_expired: shard.cleanup_expired() and the end of the loop body
SweepBody(th) ==
    LET t == threads[th]
        after == cleanup_expired(shards[t.shard], now)
    IN  /\ t.pc = "sweep_body"
        /\ shards' = [shards EXCEPT ![t.shard] = after]
        /\ installed' = Prune(installed, now)
        /\ mtx' = unlock(mtx, t.shard)
        /\ threads' = [threads EXCEPT
                          ![th].pc = IF t.shard = NUM_SHARDS - 1 THEN "ret"
                                     ELSE "sweep_lock",
                          ![th].shard = IF t.shard = NUM_SHARDS - 1 THEN 0 ELSE @ + 1,
                          ![th].ret = [op |-> "sweep", before |-> t.snap, after |-> after,
                                       t1 |-> now]]
        /\ UNCHANGED <<now, get_calls, testVars, serverVars, unitVars, arrivals>>

\* get_stats: the four additions and the end of the loop body; after the last
\* shard, return stats
StatsRead(th) ==
    LET t == threads[th]
        sh == shards[t.shard]
        sum == add_shard([hits |-> t.acc.hits, misses |-> t.acc.misses,
                          evictions |-> t.acc.evictions, size |-> t.acc.size], sh)
        acc == [hits |-> sum.hits,
                misses |-> sum.misses,
                evictions |-> sum.evictions,
                size |-> sum.size,
                visited |-> Append(t.acc.visited, t.shard),
                quiet |-> t.acc.quiet /\ shards = t.begin.shards]
        last == t.shard = NUM_SHARDS - 1
    IN  /\ t.pc = "stats_read"
        /\ mtx' = unlock(mtx, t.shard)
        /\ threads' = [threads EXCEPT
                          ![th].pc = IF last THEN "ret" ELSE "stats_lock",
                          ![th].shard = IF last THEN 0 ELSE @ + 1,
                          ![th].acc = acc,
                          ![th].ret = IF last
                                      THEN [op |-> "stats",
                                            stats |-> [hits |-> acc.hits,
                                                       misses |-> acc.misses,
                                                       evictions |-> acc.evictions,
                                                       size |-> acc.size],
                                            visited |-> acc.visited,
                                            quiet |-> acc.quiet,
                                            begin |-> t.begin.totals,
                                            end |-> stats_of(shards)]
                                      ELSE @]
        /\ UNCHANGED <<cacheVars, testVars, serverVars, unitVars, arrivals>>

\* get_performance_stats: lock_guard<mutex> lock(stats_mutex)
PerfLock(th) ==
    /\ threads[th].pc = "perf_lock"
    /\ can_lock(mtx.stats)
    /\ mtx' = [mtx EXCEPT !.stats = th]
    /\ threads' = [threads EXCEPT ![th].pc = "perf_copy"]
    /\ UNCHANGED <<cacheVars, testVars, serverVars, unitVars, arrivals>>

\* get_performance_stats: sorted_times = response_times, and the return
PerfCopy(th) ==
    /\ threads[th].pc = "perf_copy"
    /\ mtx' = [mtx EXCEPT !.stats = Free]
    /\ threads' = [threads EXCEPT ![th].pc = "ret",
                                  ![th].ret = [op |-> "perf", copy |-> response_times]]
    /\ UNCHANGED <<cacheVars, testVars, serverVars, unitVars, arrivals>>

\* the call returns: its locals are gone
Return(th) ==
    /\ threads[th].pc = "ret"
    /\ threads' = [threads EXCEPT ![th] = [IdleThread EXCEPT !.ret = NoRet,
                                                             !.ops = threads[th].ops]]
    /\ UNCHANGED <<cacheVars, testVars, serverVars, unitVars, mtx, arrivals>>

NextThreads ==
    \/ Tick
    \/ \E th \in Threads, d \in ThreadDomains : BeginQuery(th, d)
    \/ \E th \in Threads, i \in ThreadSets : BeginSet(th, i)
    \/ \E th \in Threads : BeginCleanup(th)
    \/ \E th \in Threads : BeginStats(th)
    \/ \E th \in Threads : BeginPerf(th)
    \/ \E th \in Threads : LockShard(th)
    \/ \E th \in Threads : GetBody(th)
    \/ \E th \in Threads, up \in UpstreamResults : Upstream(th, up)
    \/ \E th \in Threads : SetStore(th)
    \/ \E th \in Threads : SetTouch(th)
    \/ \E th \in Threads : AppendLock(th)
    \/ \E th \in Threads : AppendPush(th)
    \/ \E th \in Threads : AppendTrim(th)
    \/ \E th \in Threads : LockNextShard(th)
    \/ \E th \in Threads : SweepBody(th)
    \/ \E th \in Threads : StatsRead(th)
    \/ \E th \in Threads : PerfLock(th)
    \/ \E th \in Threads : PerfCopy(th)
    \/ \E th \in Threads : Return(th)

SpecThreads == InitThreads /\ [][NextThreads]_vars

\* the mutexes a thread owns
ShardsHeld(th) == {s \in ShardIds : mtx.shard[s] = th}

Waiting(th) ==
    threads[th].pc \in {"get_lock", "set_lock", "sweep_lock", "stats_lock",
                        "append_lock", "perf_lock"}

\* the steps a thread takes with a mutex locked; each is enabled whatever the
\* other threads do
InCriticalSection(th) ==
    threads[th].pc \in {"get_body", "set_store", "set_touch", "sweep_body", "stats_read",
                        "append_push", "append_trim", "perf_copy"}

\* the owner of the mutex a waiting thread wants
WantedOwner(th) ==
    IF threads[th].pc \in {"append_lock", "perf_lock"} THEN mtx.stats
    ELSE IF threads[th].pc \in {"get_lock", "set_lock"}
         THEN mtx.shard[get_shard_index(threads[th].domain)]
    ELSE mtx.shard[threads[th].shard]

\* C22: no thread owns the mutexes of two shards at once, in get, set,
\* cleanup_expired and get_stats, and none owns a shard's mutex together with
\* stats_mutex; a thread that waits for a mutex owns none, and the owner of the
\* mutex it waits for is another thread inside its critical section, whose next
\* step needs no mutex: no deadlock
C22_OneMutexAtATime ==
    \A th \in Threads :
        /\ Cardinality(ShardsHeld(th)) + (IF mtx.stats = th THEN 1 ELSE 0) <= 1
        /\ (ShardsHeld(th) # {} \/ mtx.stats = th) => InCriticalSection(th)
        /\ Waiting(th)
              => /\ ShardsHeld(th) = {}
                 /\ mtx.stats # th
                 /\ WantedOwner(th) # th
                 /\ WantedOwner(th) # Free => ~Waiting(WantedOwner(th))

\* one thread is in the critical section of the second shard of a sweep while
\* the other waits for that shard's mutex
C22_Witness ==
    /\ threads[1].pc = "sweep_body"
    /\ threads[1].shard = NUM_SHARDS - 1
    /\ mtx.shard[NUM_SHARDS - 1] = 1
    /\ Waiting(2)
    /\ WantedOwner(2) = 1

\* C23: the critical sections of one shard run one at a time: a shard changes
\* only in a step of the thread that owns its mutex; every get, set and sweep of
\* a shard leaves it, and returns, as the operation run alone on the shard found
\* when the mutex was taken; whenever a shard's mutex is free its three
\* structures have the same keys and it holds at most MAX_ENTRIES_PER_SHARD
\* entries
C23_ShardSerialized ==
    /\ [](/\ \A s \in ShardIds :
                mtx.shard[s] = Free
                    => /\ ShardConsistent(shards[s])
                       /\ Size(shards[s]) <= MAX_ENTRIES_PER_SHARD
          /\ \A th \in Threads :
                LET t == threads[th]
                    r == t.ret
                IN  /\ r.op = "get"
                          => cache_get(r.before, t.domain, r.t1, r.t2)
                                 = [shard |-> r.after, found |-> r.found, ip |-> r.ip]
                    /\ r.op = "set"
                          => cache_set(r.before, t.domain, t.ip, t.ttl, r.t1, r.t2) = r.after
                    /\ r.op = "sweep"
                          => cleanup_expired(r.before, r.t1) = r.after
                    /\ (\E s \in ShardIds : mtx.shard[s] = th /\ s = t.shard)
                          => t.pc \in {"get_body", "set_store", "set_touch", "sweep_body",
                                       "stats_read"})
    /\ [][\A s \in ShardIds :
              shards'[s] # shards[s]
                  => /\ mtx.shard[s] # Free
                     /\ threads'[mtx.shard[s]] # threads[mtx.shard[s]]
                     /\ \A th \in Threads \ {mtx.shard[s]} : threads'[th] = threads[th]]_vars

\* two threads asked for the same name, both missed, and both have installed
\* it: the second set has just returned and found the entry of the first
C23_Witness ==
    \E th \in Threads, o \in Threads :
        /\ th # o
        /\ threads[th].prog = "query" /\ threads[o].prog = "query"
        /\ threads[th].domain = threads[o].domain
        /\ threads[th].ret.op = "set"
        /\ threads[th].domain \in DOMAIN threads[th].ret.before.entries
        /\ threads[o].pc \in {"append_lock", "append_push", "append_trim", "ret"}
        /\ threads[o].ip # threads[th].ip

\* C29: get_stats locks the shards 0 .. NUM_SHARDS - 1 once each, in this
\* order, one at a time, and returns the sums of what it read; when the cache
\* was the same at each of its reads as when the call began, the result is the
\* exact totals; otherwise each of the sums of hits, misses and evictions lies
\* between the total when the call began and the total when it returned
C29_StatsBetweenTotals ==
    \A th \in Threads :
        LET r == threads[th].ret
        IN  /\ threads[th].pc = "stats_read" => ShardsHeld(th) = {threads[th].shard}
            /\ r.op = "stats"
                  => /\ r.visited = [i \in 1 .. NUM_SHARDS |-> i - 1]
                     /\ r.begin.hits <= r.stats.hits /\ r.stats.hits <= r.end.hits
                     /\ r.begin.misses <= r.stats.misses /\ r.stats.misses <= r.end.misses
                     /\ r.begin.evictions <= r.stats.evictions
                     /\ r.stats.evictions <= r.end.evictions
                     /\ r.quiet => (r.stats = r.begin /\ r.stats = r.end)

\* get_stats has returned while a query ran: it counted the query's miss, and
\* its sums are neither the totals when it began nor the totals when it returned
C29_Witness ==
    \E th \in Threads :
        /\ threads[th].ret.op = "stats"
        /\ ~threads[th].ret.quiet
        /\ threads[th].ret.stats.misses > threads[th].ret.begin.misses
        /\ threads[th].ret.stats # threads[th].ret.end

\* the last n arrivals, oldest first
LastArrivals(n) == [i \in 1 .. n |-> arrivals - n + i]

-----------------------------------------------------------------------------
(* the remaining claims *)

\* C35: a get changes the expiry and the ip of no entry: what it leaves in the
\* shard has the ip and the expiry it had; a hit removes only what its sweep
\* removes, puts the key at the front of lru_list and adds 1 to the entry's and
\* to the shard's hits; however often an entry is read, a get whose clock
\* reads the entry's expiry or later does not return it; every entry still to
\* expire has the ip and the expiry t + ttl of the set that installed it; a set
\* stores now + ttl and the new ip, also when that is before the old expiry
C35_GetKeepsExpiry ==
    /\ \A d \in DOMAIN installed :
          /\ d \in DOMAIN ShardOf(d).entries
          /\ ShardOf(d).entries[d].expiry = installed[d].expiry
          /\ ShardOf(d).entries[d].ip = installed[d].ip
    /\ \A d \in Domains, dt \in Skews :
          LET sh == ShardOf(d)
              g == cache_get(sh, d, now, now + dt)
              again == cache_get(g.shard, d, now + dt, now + dt)
          IN  /\ \A k \in DOMAIN g.shard.entries :
                    /\ k \in DOMAIN sh.entries
                    /\ g.shard.entries[k].expiry = sh.entries[k].expiry
                    /\ g.shard.entries[k].ip = sh.entries[k].ip
                    /\ k # d => g.shard.entries[k] = sh.entries[k]
              /\ g.found
                    => /\ DOMAIN g.shard.entries = DOMAIN cleanup_expired(sh, now).entries
                       /\ g.shard.lru_list[1] = d
                       /\ g.shard.entries[d].hits = sh.entries[d].hits + 1
                       /\ g.shard.hits = sh.hits + 1
                       /\ again.found
                       /\ again.shard.entries[d].expiry = sh.entries[d].expiry
                       /\ \A late \in Skews :
                             LET t == sh.entries[d].expiry + late
                             IN  /\ ~cache_get(g.shard, d, t, t).found
                                 /\ ~cache_get(again.shard, d, t, t).found
    /\ \A i \in SetInputs, dt \in Skews :
          LET r == cache_set(ShardOf(i.domain), i.domain, i.ip, i.ttl, now, now + dt)
          IN  /\ r.entries[i.domain].expiry = now + dt + i.ttl
              /\ r.entries[i.domain].ip = i.ip

\* an entry has been read since it was installed, the clock has advanced and
\* the entry is still to expire, so that another get would return it again and
\* a set with a shorter ttl would bring its expiry forward
C35_Witness ==
    \E d \in DOMAIN installed :
        /\ ShardOf(d).entries[d].hits >= 1
        /\ now >= 1
        /\ installed[d].expiry > now
        /\ \E i \in SetInputs : i.domain = d /\ now + i.ttl < installed[d].expiry

\* C32: parse_domain_name ends on every datagram, also when a compression
\* pointer points at itself, at an earlier pointer or back into labels already
\* read; so handle_query returns and the worker is back at its receive loop
C32_ParseTerminates ==
    /\ worker = "recv"
    /\ Serving
          => \A data \in Datagrams, oob \in OobBytes, up \in UpstreamResults :
                /\ parse_domain_name(data, 12, oob).status # "hang"
                /\ handle_query(Server, data, oob, up, now, now).worker = "recv"

\* the indices (from 0) of the octets that the loop of parse_domain_name reads
\* from offset on
RECURSIVE parse_reads(_, _, _, _)
parse_reads(data, oob, offset, seen) ==
    LET len == Len(data)
        label_len == data[offset + 1]
        second == IF offset + 1 < len THEN data[offset + 2] ELSE oob
    IN  IF ~(offset < len) \/ offset \in seen THEN {}
        ELSE IF label_len = 0 THEN {offset}
        ELSE IF BitAnd(label_len, 192) = 192
             THEN {offset, offset + 1}
                      \cup parse_reads(data, oob, BitOr(BitAnd(label_len, 63) * 256, second),
                                       seen \cup {offset})
        ELSE IF offset + 1 + label_len > len THEN {offset}
        ELSE (offset .. (offset + label_len))
                 \cup parse_reads(data, oob, offset + 1 + label_len, seen \cup {offset})

\* the indices that handle_query reads through parse_dns_header and
\* parse_dns_question
handle_query_reads(data, oob) ==
    LET header == parse_dns_header(data)
        question == parse_dns_question(data, 12, oob)
    IN  IF ~header.ok THEN {}
        ELSE (0 .. 11)
                 \cup (IF header.qdcount # 1 THEN {}
                       ELSE parse_reads(data, oob, 12, {})
                                \cup (IF question.status = "ok"
                                      THEN (question.offset - 4) .. (question.offset - 1)
                                      ELSE {}))

\* C33: parsing a datagram of length len, the header, name and question
\* parsers read no octet at an index >= len
C33_NoReadPastEnd ==
    Serving
        => \A data \in Datagrams, oob \in OobBytes :
              \A i \in handle_query_reads(data, oob) : i < Len(data)

\* C36: every answer packet that add_local_domain stores or build_dns_response
\* builds is complete, whatever the ip string: 12 header octets, the encoded
\* name, qtype and qclass, and the 16 octets of the answer record, which
\* announces rdlength 4 and ends in exactly 4 RDATA octets
C36_AnswerComplete ==
    (call.fn \in {"add_local_domain", "build_dns_response"} /\ outcome.done)
        => \A p \in {outcome.value, build_dns_response(QueryId, call.domain, call.ip)} :
              /\ Len(p) = 12 + Len(encode_domain_name(call.domain)) + 4 + 16
              /\ SubSeq(p, Len(p) - 5, Len(p) - 4) = <<0, 4>>

-----------------------------------------------------------------------------
(* the dispatcher with a long name in the pre-compiled table *)

\* uint8_t buffer[512] of worker_thread: recvfrom stores at most this many
\* octets of a datagram
BUFFER_SIZE == 512

\* a name of eight labels "aa...a", seven of 61 octets and one of 60: 496
\* octets on the wire, so that its query is BUFFER_SIZE octets long
LongLabels == [i \in 1 .. 8 |-> [j \in 1 .. (IF i = 8 THEN 60 ELSE 61) |-> 97]]

LongDomain == JoinDots(LongLabels)

LongQuery == Query(1, LengthPrefixed(LongLabels) \o <<0>>, 1, 1)

\* the datagrams that arrive: the long name, "l", "a", and "a" with qtype AAAA
BufferDatagrams ==
    {LongQuery,
     Query(1, <<1, 108, 0>>, 1, 1),
     Query(1, <<1, 97, 0>>, 1, 1),
     Query(1, <<1, 97, 0>>, 28, 1)}

\* the server after construction and add_local_domain(LongDomain, ip)
InitBuffer ==
    /\ shards = [s \in ShardIds |-> EmptyShard]
    /\ now = 0
    /\ get_calls = [s \in ShardIds |-> 0]
    /\ installed = <<>>
    /\ test = [pc |-> "prior", fill |-> 0, res |-> <<>>]
    /\ running = FALSE
    /\ \E ip \in LocalIPs :
          responses = MapPut(<<>>, LongDomain, add_local_domain(LongDomain, ip))
    /\ total_queries = 0
    /\ cache_hits = 0
    /\ local_domain_hits = 0
    /\ response_times = <<>>
    /\ sent = <<>>
    /\ resolved = <<>>
    /\ worker = "recv"
    /\ call = NoCall
    /\ outcome = Pending
    /\ lookups = NoLookups
    /\ InitLocks

NextBuffer ==
    \/ Tick
    \/ \E d \in LocalDomains, ip \in LocalIPs : AddLocalDomain(d, ip)
    \/ Start
    \/ \E data \in BufferDatagrams, oob \in OobBytes, up \in UpstreamResults, dt \in Skews :
          HandleQuery(data, oob, up, dt)

SpecBuffer == InitBuffer /\ [][NextBuffer]_vars

\* C31: every reply the dispatcher sends, answer or error, to a query that
\* fits the receive buffer and parses, is at most BUFFER_SIZE octets long
C31_ReplyFitsBuffer ==
    /\ \A data \in BufferDatagrams : Len(data) <= BUFFER_SIZE
    /\ \A i \in 1 .. Len(sent) : Len(sent[i]) <= BUFFER_SIZE

-----------------------------------------------------------------------------
(* get_performance_stats of the statistics thread while the worker handles
   queries: the three counters are loaded one after the other *)

\* the statistics thread of main
StatsThread == 1

\* the datagrams that arrive: "l" (in the pre-compiled table once it is
\* registered), "a", and a datagram without a header
SnapshotDatagrams ==
    {Query(1, <<1, 108, 0>>, 1, 1),
     Query(1, <<1, 97, 0>>, 1, 1),
     QueryId \o <<1, 0>>}

\* what the double cache_hit_ratio of "PerformanceStats stats;" may hold while
\* nothing was assigned to it: a ratio num / den, here 0 or 2
Indeterminate == {[num |-> 0, den |-> 1], [num |-> 2, den |-> 1]}

\* if (stats.total_queries > 0) stats.cache_hit_ratio = (cache_hits +
\* local_domain_hits) / total_queries; left is what the field held before
cache_hit_ratio(stats, left) ==
    IF stats.total_queries > 0
    THEN [num |-> stats.cache_hits + stats.local_domain_hits, den |-> stats.total_queries]
    ELSE left

\* the statistics thread calls get_performance_stats(): PerformanceStats stats
SnapshotBegin ==
    /\ threads[StatsThread].pc = "idle"
    /\ threads[StatsThread].ops < MaxOps
    /\ \E left \in Indeterminate :
          threads' = [threads EXCEPT ![StatsThread].pc = "load_total",
                                     ![StatsThread].prog = "perf",
                                     ![StatsThread].ops = @ + 1,
                                     ![StatsThread].acc = [cache_hit_ratio |-> left]]
    /\ UNCHANGED <<cacheVars, testVars, serverVars, unitVars, mtx, arrivals>>

\* stats.total_queries = total_queries.load()
LoadTotalQueries ==
    /\ threads[StatsThread].pc = "load_total"
    /\ threads' = [threads EXCEPT
                      ![StatsThread].pc = "load_cache",
                      ![StatsThread].acc =
                          [cache_hit_ratio |-> threads[StatsThread].acc.cache_hit_ratio,
                           total_queries |-> total_queries]]
    /\ UNCHANGED <<cacheVars, testVars, serverVars, unitVars, mtx, arrivals>>

\* stats.cache_hits = cache_hits.load()
LoadCacheHits ==
    /\ threads[StatsThread].pc = "load_cache"
    /\ threads' = [threads EXCEPT
                      ![StatsThread].pc = "load_local",
                      ![StatsThread].acc =
                          [cache_hit_ratio |-> threads[StatsThread].acc.cache_hit_ratio,
                           total_queries |-> threads[StatsThread].acc.total_queries,
                           cache_hits |-> cache_hits]]
    /\ UNCHANGED <<cacheVars, testVars, serverVars, unitVars, mtx, arrivals>>

\* stats.local_domain_hits = local_domain_hits.load(), and the ratio
LoadLocalDomainHits ==
    /\ threads[StatsThread].pc = "load_local"
    /\ LET stats == [total_queries |-> threads[StatsThread].acc.total_queries,
                     cache_hits |-> threads[StatsThread].acc.cache_hits,
                     local_domain_hits |-> local_domain_hits]
       IN  threads' = [threads EXCEPT
                          ![StatsThread].pc = "perf_lock",
                          ![StatsThread].acc =
                              [total_queries |-> stats.total_queries,
                               cache_hits |-> stats.cache_hits,
                               local_domain_hits |-> stats.local_domain_hits,
                               cache_hit_ratio |->
                                   cache_hit_ratio(stats,
                                                   threads[StatsThread].acc.cache_hit_ratio)]]
    /\ UNCHANGED <<cacheVars, testVars, serverVars, unitVars, mtx, arrivals>>

\* the worker receives a datagram and handles it; the handler's append to the
\* reservoir needs stats_mutex
WorkerQuery(data, up) ==
    /\ mtx.stats = Free
    /\ HandleQuery(data, 0, up, 0)

NextSnapshot ==
    \/ \E d \in LocalDomains, ip \in LocalIPs : AddLocalDomain(d, ip)
    \/ Start
    \/ \E data \in SnapshotDatagrams, up \in UpstreamResults : WorkerQuery(data, up)
    \/ SnapshotBegin
    \/ LoadTotalQueries
    \/ LoadCacheHits
    \/ LoadLocalDomainHits
    \/ PerfLock(StatsThread)
    \/ PerfCopy(StatsThread)
    \/ Return(StatsThread)

SpecSnapshot == Init /\ [][NextSnapshot]_vars

\* C34: every snapshot that get_performance_stats returns has cache_hits +
\* local_domain_hits <= total_queries and a hit ratio of at most 1, also while
\* the worker handles queries between the loads of the three counters, and the
\* ratio is well defined when total_queries is 0
C34_SnapshotConsistent ==
    (threads[StatsThread].pc = "ret" /\ threads[StatsThread].prog = "perf")
        => LET stats == threads[StatsThread].acc
           IN  /\ stats.cache_hits + stats.local_domain_hits <= stats.total_queries
               /\ stats.cache_hit_ratio.num <= stats.cache_hit_ratio.den
               /\ stats.total_queries = 0 => stats.cache_hit_ratio.num = 0

=============================================================================
